---- MODULE Spec2Model ----
(***************************************************************************)
(* Model of pynecil: the characteristic codec table (CHAR_MAP), the scalar *)
(* codecs, the language-code hash, decode_live_data and the Pynecil client *)
(* (connect / disconnect / read / write / get_device_info / get_live_data  *)
(* / get_settings) on top of a BLE transport that can fail and drop.       *)
(***************************************************************************)
EXTENDS Integers, Sequences, FiniteSets, TLC

(***************************************************************************)
(* Bounds of the model.                                                     *)
(***************************************************************************)
\* integers written to a setting are drawn from -MaxBelow..MaxInput
MaxBelow == 3
MaxInput == 2503
\* and from the far values -FarInput and FarInput
FarInput == 1000000
\* floats written to a setting are k / 10 for k in -MaxBelow..MaxTenths
MaxTenths == 223
\* raw values of one live-data field are drawn from 0..MaxRaw
MaxRaw == 1200
\* SHA-1 digests of language strings are drawn from 0..MaxDigest
MaxDigest == 65600
\* integer ids given to get_settings are drawn from 0..MaxSettingId
MaxSettingId == 100
\* raw integers the device returns to a read are drawn from 0..MaxRawRead
MaxRawRead == 300

(***************************************************************************)
(* Python values.  A value is a record [t, v]: t is the Python type (or    *)
(* the Enum class), v the payload.  A raised exception is a value of type  *)
(* "raise" whose payload is the exception class.                           *)
(***************************************************************************)
PyInt(n) == [t |-> "int", v |-> n]
PyBool(b) == [t |-> "bool", v |-> b]
PyFloat(f) == [t |-> "float", v |-> f]
PyStr(s) == [t |-> "str", v |-> s]
PyEnum(cls, n) == [t |-> cls, v |-> n]
PyNone == [t |-> "None", v |-> 0]
PyList(l) == [t |-> "list", v |-> l]
\* an exception raised with "from cause" records the class of its cause
RaiseFrom(exc, cause) == [t |-> "raise", v |-> exc, cause |-> cause]
Raise(exc) == RaiseFrom(exc, "None")
IsRaise(x) == x.t = "raise"
\* equality of two Python objects of the model (type first, then payload)
PyEq(a, b) == a.t = b.t /\ a.v = b.v

(***************************************************************************)
(* The Enum classes of types.py: the values of the members of each class.  *)
(***************************************************************************)
LanguageCodeValues ==
    { 60301, 15395, 36791, 63942, 5496, 5003, 41431, 38713, 18074, 25411,
      38783, 49773, 19902, 57867, 2385, 5183, 31043, 22266, 55046, 55968,
      56922, 61480, 26979, 13916, 21931, 41427, 61017, 65456, 9120, 29374,
      20758, 17119, 44731, 34289 }

EnumValues ==
    [ PowerSource |-> 0..3,
      OperatingMode |-> 0..5,
      LanguageCode |-> LanguageCodeValues,
      BatteryType |-> 0..4,
      ScreenOrientationMode |-> 0..2,
      AnimationSpeed |-> 0..3,
      AutostartMode |-> 0..3,
      TempUnit |-> 0..1,
      ScrollSpeed |-> 0..1,
      LockingMode |-> 0..2,
      LogoDuration |-> 0..6 ]

EnumClasses == DOMAIN EnumValues

\* Enum.__call__: Cls(n) is the member with value n, ValueError if none
EnumCtor(cls, n) ==
    IF n \in EnumValues[cls] THEN PyEnum(cls, n) ELSE Raise("ValueError")

(***************************************************************************)
(* IEEE-754 double arithmetic, as far as the codecs use it: the true       *)
(* division int / int, the product float * int and the truncation          *)
(* int(float).  A double is [neg, mant, exp] of value mant * 2^exp, where  *)
(* mant is its 53-bit significand, held as a natural number in limbs of 15 *)
(* bits, least significant limb first (<<>> for zero).  Every operation    *)
(* rounds to nearest, ties to even, as the hardware does.                  *)
(***************************************************************************)
MantBits == 53
LimbBits == 15

FloatZero == [neg |-> FALSE, mant |-> <<>>, exp |-> 0]

RECURSIVE Pow2(_)
Pow2(k) == IF k = 0 THEN 1 ELSE 2 * Pow2(k - 1)

LimbBase == Pow2(LimbBits)
\* limbs of fraction computed by a division: 75 bits, more than 53 + 2
DivLimbs == 2 + (MantBits \div LimbBits)

\* drop the high limbs that are zero
BigNorm(a) ==
    LET nz == {i \in 1..Len(a) : a[i] # 0}
    IN  IF nz = {} THEN <<>>
        ELSE SubSeq(a, 1, CHOOSE i \in nz : \A j \in nz : j <= i)

BigFromInt(n) ==
    BigNorm(<<n % LimbBase, (n \div LimbBase) % LimbBase,
              n \div (LimbBase * LimbBase)>>)

BigLimb(a, i) == IF i \in 1..Len(a) THEN a[i] ELSE 0

BigToInt(a) ==
    BigLimb(a, 1) + LimbBase * BigLimb(a, 2)
        + LimbBase * LimbBase * BigLimb(a, 3)

\* number of significant bits
BigBitLen(a) ==
    IF a = <<>> THEN 0
    ELSE LimbBits * (Len(a) - 1)
         + CHOOSE k \in 1..LimbBits :
               Pow2(k - 1) <= a[Len(a)] /\ a[Len(a)] < Pow2(k)

\* bit i of a, bit 0 the least significant
BigBit(a, i) == (BigLimb(a, (i \div LimbBits) + 1) \div Pow2(i % LimbBits)) % 2

\* a \div 2^s
BigShiftRight(a, s) ==
    LET q == s \div LimbBits
        b == s % LimbBits
    IN  BigNorm([j \in 1..Len(a) |->
            (BigLimb(a, j + q) \div Pow2(b))
            + (BigLimb(a, j + q + 1) % Pow2(b)) * Pow2(LimbBits - b)])

\* a * 2^s
BigShiftLeft(a, s) ==
    LET q == s \div LimbBits
        b == s % LimbBits
    IN  BigNorm([j \in 1..(Len(a) + q + 1) |->
            ((BigLimb(a, j - q) * Pow2(b)) % LimbBase)
            + (BigLimb(a, j - q - 1) \div Pow2(LimbBits - b))])

\* a + 1
BigIncr(a) ==
    LET low == {i \in 1..Len(a) : a[i] # LimbBase - 1}
    IN  IF low = {} THEN [i \in 1..(Len(a) + 1) |-> IF i <= Len(a) THEN 0 ELSE 1]
        ELSE LET p == CHOOSE i \in low : \A j \in low : i <= j
             IN  [i \in 1..Len(a) |->
                     IF i < p THEN 0 ELSE IF i = p THEN a[i] + 1 ELSE a[i]]

\* a * m + carry, m a small positive integer
RECURSIVE BigMulSmall(_, _, _)
BigMulSmall(a, m, carry) ==
    IF a = <<>> THEN BigFromInt(carry)
    ELSE <<(a[1] * m + carry) % LimbBase>>
         \o BigMulSmall(Tail(a), m, (a[1] * m + carry) \div LimbBase)

\* round the exact value a * 2^e (plus a nonzero tail when sticky) to 53 bits
RoundNearestEven(neg, a, e, sticky) ==
    LET len == BigBitLen(a)
        k == len - MantBits
    IN  IF k <= 0
        THEN [neg |-> neg, mant |-> BigShiftLeft(a, 0 - k), exp |-> e + k]
        ELSE LET keep == BigShiftRight(a, k)
                 guard == BigBit(a, k - 1)
                 tail == sticky \/ \E i \in 0..(k - 2) : BigBit(a, i) = 1
                 up == guard = 1 /\ (tail \/ BigBit(keep, 0) = 1)
                 inc == BigIncr(keep)
             IN  IF ~up THEN [neg |-> neg, mant |-> keep, exp |-> e + k]
                 ELSE IF BigBitLen(inc) = MantBits
                 THEN [neg |-> neg, mant |-> inc, exp |-> e + k]
                 ELSE [neg |-> neg, mant |-> BigShiftRight(inc, 1),
                       exp |-> e + k + 1]

\* the next k limbs of the quotient r / d (r < d), most significant first,
\* with the remainder left
RECURSIVE FracLimbs(_, _, _)
FracLimbs(r, d, k) ==
    IF k = 0 THEN <<<<>>, r>>
    ELSE LET rest == FracLimbs((r * LimbBase) % d, d, k - 1)
         IN  <<(<<(r * LimbBase) \div d>>) \o rest[1], rest[2]>>

\* n / d for integers n >= 0, d > 0: the correctly rounded double
IntTrueDiv(n, d) ==
    IF n = 0 THEN FloatZero
    ELSE LET fr == FracLimbs(n % d, d, DivLimbs)
             low == [i \in 1..DivLimbs |-> fr[1][DivLimbs + 1 - i]]
         IN  RoundNearestEven(FALSE, BigNorm(low \o BigFromInt(n \div d)),
                              0 - LimbBits * DivLimbs, fr[2] # 0)

\* f * m for a double f and an integer m > 0 (m is exact as a double)
FloatMulInt(f, m) ==
    IF f.mant = <<>> THEN f
    ELSE RoundNearestEven(f.neg, BigNorm(BigMulSmall(f.mant, m, 0)),
                          f.exp, FALSE)

\* int(f): truncation toward zero
FloatTrunc(f) ==
    IF f.mant = <<>> THEN 0
    ELSE LET mag == IF f.exp >= 0 THEN BigToInt(f.mant) * Pow2(f.exp)
                    ELSE BigToInt(BigShiftRight(f.mant, 0 - f.exp))
         IN  IF f.neg THEN 0 - mag ELSE mag

FloatNeg(f) == IF f.mant = <<>> THEN f ELSE [f EXCEPT !.neg = ~f.neg]

\* a + b + carry
RECURSIVE BigAdd(_, _, _)
BigAdd(a, b, carry) ==
    IF a = <<>> /\ b = <<>> THEN BigFromInt(carry)
    ELSE <<(BigLimb(a, 1) + BigLimb(b, 1) + carry) % LimbBase>>
         \o BigAdd(IF a = <<>> THEN a ELSE Tail(a),
                   IF b = <<>> THEN b ELSE Tail(b),
                   (BigLimb(a, 1) + BigLimb(b, 1) + carry) \div LimbBase)

\* a - b - borrow for a >= b + borrow, high zero limbs kept
RECURSIVE BigSub(_, _, _)
BigSub(a, b, borrow) ==
    IF a = <<>> THEN <<>>
    ELSE LET d == a[1] - BigLimb(b, 1) - borrow
         IN  <<IF d < 0 THEN d + LimbBase ELSE d>>
             \o BigSub(Tail(a), IF b = <<>> THEN b ELSE Tail(b),
                       IF d < 0 THEN 1 ELSE 0)

\* a < b, for a and b without high zero limbs
BigLess(a, b) ==
    \/ Len(a) < Len(b)
    \/ /\ Len(a) = Len(b)
       /\ \E i \in 1..Len(a) :
             /\ a[i] < b[i]
             /\ \A j \in (i + 1)..Len(a) : a[j] = b[j]

\* f - m for a double f and an integer m > 0 (m is exact as a double): the
\* exact difference, rounded
FloatSubInt(f, m) ==
    IF f.mant = <<>> THEN RoundNearestEven(TRUE, BigFromInt(m), 0, FALSE)
    ELSE LET e == IF f.exp < 0 THEN f.exp ELSE 0
             a == BigShiftLeft(f.mant, f.exp - e)
             b == BigShiftLeft(BigFromInt(m), 0 - e)
         IN  IF f.neg
             THEN RoundNearestEven(TRUE, BigNorm(BigAdd(a, b, 0)), e, FALSE)
             ELSE IF a = b THEN FloatZero
             ELSE IF BigLess(a, b)
             THEN RoundNearestEven(TRUE, BigNorm(BigSub(b, a, 0)), e, FALSE)
             ELSE RoundNearestEven(FALSE, BigNorm(BigSub(a, b, 0)), e, FALSE)

(***************************************************************************)
(* Scalar codecs (client.py).  bytes / bytearray objects are values of     *)
(* type "bytes" whose payload is the sequence of byte values.              *)
(***************************************************************************)
PyBytes(b) == [t |-> "bytes", v |-> b]

\* int.from_bytes(b, byteorder="little", signed=False)
RECURSIVE FromBytesLittle(_)
FromBytesLittle(b) ==
    IF b = <<>> THEN 0 ELSE b[1] + 256 * FromBytesLittle(Tail(b))

decode_int(value) == PyInt(FromBytesLittle(value.v))

\* bytes.decode("utf-8") on the byte sequence b: the code points, or
\* <<-1>> when b is not valid UTF-8 (overlong forms, surrogates and code
\* points above U+10FFFF are invalid)
IsCont(x) == x \in 128..191
RECURSIVE Utf8CodePoints(_)
Utf8CodePoints(b) ==
    IF b = <<>> THEN <<>>
    ELSE LET n == IF b[1] < 128 THEN 1
                  ELSE IF b[1] \in 194..223 THEN 2
                  ELSE IF b[1] \in 224..239 THEN 3
                  ELSE IF b[1] \in 240..244 THEN 4
                  ELSE 0
             ok == /\ n > 0
                   /\ Len(b) >= n
                   /\ \A i \in 2..n : IsCont(b[i])
                   /\ (b[1] = 224 => b[2] >= 160)
                   /\ (b[1] = 237 => b[2] <= 159)
                   /\ (b[1] = 240 => b[2] >= 144)
                   /\ (b[1] = 244 => b[2] <= 143)
             cp == IF n = 1 THEN b[1]
                   ELSE IF n = 2 THEN (b[1] - 192) * 64 + (b[2] - 128)
                   ELSE IF n = 3
                   THEN (b[1] - 224) * 4096 + (b[2] - 128) * 64 + (b[3] - 128)
                   ELSE (b[1] - 240) * 262144 + (b[2] - 128) * 4096
                        + (b[3] - 128) * 64 + (b[4] - 128)
             rest == Utf8CodePoints(SubSeq(b, n + 1, Len(b)))
         IN  IF ~ok THEN <<-1>>
             ELSE IF rest = <<-1>> THEN <<-1>>
             ELSE <<cp>> \o rest

decode_str(value) ==
    IF Utf8CodePoints(value.v) = <<-1>> THEN Raise("UnicodeDecodeError")
    ELSE PyStr(Utf8CodePoints(value.v))

\* a clip that bounds from below only
clip_lower(a, a_min, a_max) == IF a > a_min THEN a ELSE a_min

\* max(a_min, min(a, a_max)), lines 431-456
clip(a, a_min, a_max) ==
    LET a1 == IF a < a_max THEN a ELSE a_max
    IN  IF a1 > a_min THEN a1 ELSE a_min

\* value.to_bytes(2, byteorder="little", signed=False)
encode_int(value) ==
    IF value < 0 \/ value > 65535 THEN Raise("OverflowError")
    ELSE PyBytes(<<value % 256, value \div 256>>)

(***************************************************************************)
(* Hexadecimal formatting of int.from_bytes(b, "little"): format(n, "x")   *)
(* and format(n, "016x").  The digits are computed from the bytes, most    *)
(* significant byte first; a string is its sequence of code points.        *)
(***************************************************************************)
HexChar(d) == IF d < 10 THEN 48 + d ELSE 87 + d

\* the 2 * Len(b) hexadecimal digits of the little-endian integer b
HexDigits(b) ==
    [i \in 1..(2 * Len(b)) |->
        LET byte == b[Len(b) - ((i - 1) \div 2)]
        IN  IF i % 2 = 1 THEN byte \div 16 ELSE byte % 16]

\* format(n, "x"): no leading zeros, one digit at least
FormatHex(b) ==
    LET d == HexDigits(b)
        nz == {i \in 1..Len(d) : d[i] # 0}
    IN  IF nz = {} THEN <<HexChar(0)>>
        ELSE LET first == CHOOSE i \in nz : \A j \in nz : i <= j
             IN  [i \in 1..(Len(d) - first + 1) |-> HexChar(d[first + i - 1])]

\* format(n, "0<width>x"): zero-padded on the left to width at least
FormatHexPadded(b, width) ==
    LET s == FormatHex(b)
    IN  IF Len(s) >= width THEN s
        ELSE [i \in 1..(width - Len(s)) |-> HexChar(0)] \o s

(***************************************************************************)
(* Language-code hash.  SHA-1 is not computed: a str argument is known by  *)
(* the integer its SHA-1 digest denotes, int(sha1(s).hexdigest(), 16).     *)
(***************************************************************************)
PyStrHashed(d) == [t |-> "str", v |-> [sha1 |-> d]]

\* the hash reduced modulo 2^16
encode_lang_code_mod16(language_code) ==
    IF language_code.t = "LanguageCode" THEN PyInt(language_code.v)
    ELSE IF language_code.t = "str" THEN PyInt(language_code.v.sha1 % 65536)
    ELSE Raise("AttributeError")

\* lines 500-503: the member's value, else int(sha1(...), 16) % 0xFFFF
encode_lang_code(language_code) ==
    IF language_code.t = "LanguageCode" THEN PyInt(language_code.v)
    ELSE IF language_code.t = "str" THEN PyInt(language_code.v.sha1 % 65535)
    ELSE Raise("AttributeError")

\* a decoder that lets the ValueError of LanguageCode(n) through
decode_lang_code_strict(raw) == EnumCtor("LanguageCode", decode_int(raw).v)

\* lines 521-525: LanguageCode(n), the bare integer on ValueError
decode_lang_code(raw) ==
    IF ~IsRaise(EnumCtor("LanguageCode", decode_int(raw).v))
    THEN EnumCtor("LanguageCode", decode_int(raw).v)
    ELSE decode_int(raw)

(***************************************************************************)
(* decode_live_data: struct.unpack("14I", value) on a little-endian host,  *)
(* then the per-field scaling.                                             *)
(***************************************************************************)
\* the i-th (from 0) unsigned 32-bit integer of the payload b
UnpackU32(b, i) == FromBytesLittle(SubSeq(b, 4 * i + 1, 4 * i + 4))

PyLiveData(r) == [t |-> "LiveDataResponse", v |-> r]

\* the percentage in integer arithmetic
PwmPercentExact(x) == (x * 100) \div 255

\* line 418: int(x / 255 * 100)
PwmPercent(x) == FloatTrunc(FloatMulInt(IntTrueDiv(x, 255), 100))

\* a decoder that takes what it gets: missing bytes are read as zero and
\* bytes past the 56th are dropped
decode_live_data_padded(value) ==
    LET data == [i \in 0..13 |->
                    UnpackU32([j \in 1..56 |-> IF j <= Len(value.v)
                                               THEN value.v[j] ELSE 0], i)]
    IN  PyLiveData(
            [ live_temp |-> PyInt(data[0]),
              setpoint_temp |-> PyInt(data[1]),
              dc_voltage |-> PyFloat(IntTrueDiv(data[2], 10)),
              handle_temp |-> PyFloat(IntTrueDiv(data[3], 10)),
              pwm_level |-> PyInt(PwmPercent(data[4])),
              power_src |-> PyEnum("PowerSource", data[5]),
              tip_resistance |-> PyFloat(IntTrueDiv(data[6], 10)),
              uptime |-> PyFloat(IntTrueDiv(data[7], 10)),
              movement_time |-> PyFloat(IntTrueDiv(data[8], 10)),
              max_tip_temp_ability |-> PyInt(data[9]),
              tip_voltage |-> PyInt(data[10]),
              hall_sensor |-> PyInt(data[11]),
              operating_mode |-> PyEnum("OperatingMode", data[12]),
              estimated_power |-> PyFloat(IntTrueDiv(data[13], 10)) ])

decode_live_data(value) ==
    IF Len(value.v) # 56 THEN Raise("struct.error")
    ELSE LET data == [i \in 0..13 |-> UnpackU32(value.v, i)]
         IN  IF IsRaise(EnumCtor("PowerSource", data[5]))
             THEN EnumCtor("PowerSource", data[5])
             ELSE IF IsRaise(EnumCtor("OperatingMode", data[12]))
             THEN EnumCtor("OperatingMode", data[12])
             ELSE PyLiveData(
                 [ live_temp |-> PyInt(data[0]),
                   setpoint_temp |-> PyInt(data[1]),
                   dc_voltage |-> PyFloat(IntTrueDiv(data[2], 10)),
                   handle_temp |-> PyFloat(IntTrueDiv(data[3], 10)),
                   pwm_level |-> PyInt(PwmPercent(data[4])),
                   power_src |-> EnumCtor("PowerSource", data[5]),
                   tip_resistance |-> PyFloat(IntTrueDiv(data[6], 10)),
                   uptime |-> PyFloat(IntTrueDiv(data[7], 10)),
                   movement_time |-> PyFloat(IntTrueDiv(data[8], 10)),
                   max_tip_temp_ability |-> PyInt(data[9]),
                   tip_voltage |-> PyInt(data[10]),
                   hall_sensor |-> PyInt(data[11]),
                   operating_mode |-> EnumCtor("OperatingMode", data[12]),
                   estimated_power |-> PyFloat(IntTrueDiv(data[13], 10)) ])

(***************************************************************************)
(* The builtins the registry's lambdas apply to the value given to write.  *)
(***************************************************************************)
\* int(x): TypeError for None and for members of a plain Enum
py_int(x) ==
    CASE x.t = "int" -> x
      [] x.t = "bool" -> PyInt(IF x.v THEN 1 ELSE 0)
      [] x.t = "float" -> PyInt(FloatTrunc(x.v))
      [] x.t = "str" -> Raise("ValueError")
      [] OTHER -> Raise("TypeError")

\* bool(x): truth value; Enum members and non-empty strings are true
py_bool(x) ==
    CASE x.t = "int" -> PyBool(x.v # 0)
      [] x.t = "bool" -> x
      [] x.t = "float" -> PyBool(x.v.mant # <<>>)
      [] x.t = "None" -> PyBool(FALSE)
      [] OTHER -> PyBool(TRUE)

\* x * 10
py_times10(x) ==
    CASE x.t = "int" -> PyInt(x.v * 10)
      [] x.t = "bool" -> PyInt(IF x.v THEN 10 ELSE 0)
      [] x.t = "float" -> PyFloat(FloatMulInt(x.v, 10))
      [] x.t = "str" -> x
      [] OTHER -> Raise("TypeError")

\* 25 * x, the level scaled without the offset
py_brightness_scaled(x) ==
    CASE x.t = "int" -> PyInt(25 * x.v)
      [] x.t = "bool" -> PyInt(IF x.v THEN 25 ELSE 0)
      [] x.t = "float" -> PyFloat(FloatMulInt(x.v, 25))
      [] OTHER -> Raise("TypeError")

\* 25 * x - 24
py_brightness(x) ==
    CASE x.t = "int" -> PyInt(25 * x.v - 24)
      [] x.t = "bool" -> PyInt(IF x.v THEN 1 ELSE -24)
      [] x.t = "float" -> PyFloat(FloatSubInt(FloatMulInt(x.v, 25), 24))
      [] OTHER -> Raise("TypeError")

\* f(x) unless x is an exception on its way up
Raising(x, fx) == IF IsRaise(x) THEN x ELSE fx

(***************************************************************************)
(* The members of the three Characteristic enums (types.py).               *)
(***************************************************************************)
CharLive(n) == [cls |-> "CharLive", name |-> n]
CharSetting(n) == [cls |-> "CharSetting", name |-> n]
CharBulk(n) == [cls |-> "CharBulk", name |-> n]

CharLiveValue ==
    [ LIVE_TEMP |-> 0, SETPOINT_TEMP |-> 1, DC_VOLTAGE |-> 2,
      HANDLE_TEMP |-> 3, PWM_LEVEL |-> 4, POWER_SRC |-> 5,
      TIP_RESISTANCE |-> 6, UPTIME |-> 7, MOVEMENT_TIME |-> 8,
      MAX_TIP_TEMP_ABILITY |-> 9, TIP_VOLTAGE |-> 10, HALL_SENSOR |-> 11,
      OPERATING_MODE |-> 12, ESTIMATED_POWER |-> 13 ]

CharSettingValue ==
    [ SETPOINT_TEMP |-> 0, SLEEP_TEMP |-> 1, SLEEP_TIMEOUT |-> 2,
      MIN_DC_VOLTAGE_CELLS |-> 3, MIN_VOLTAGE_PER_CELL |-> 4,
      QC_IDEAL_VOLTAGE |-> 5, ORIENTATION_MODE |-> 6,
      ACCEL_SENSITIVITY |-> 7, ANIMATION_LOOP |-> 8, ANIMATION_SPEED |-> 9,
      AUTOSTART_MODE |-> 10, SHUTDOWN_TIME |-> 11, COOLING_TEMP_BLINK |-> 12,
      IDLE_SCREEN_DETAILS |-> 13, SOLDER_SCREEN_DETAILS |-> 14,
      TEMP_UNIT |-> 15, DESC_SCROLL_SPEED |-> 16, LOCKING_MODE |-> 17,
      KEEP_AWAKE_PULSE_POWER |-> 18, KEEP_AWAKE_PULSE_DELAY |-> 19,
      KEEP_AWAKE_PULSE_DURATION |-> 20, VOLTAGE_DIV |-> 21, BOOST_TEMP |-> 22,
      CALIBRATION_OFFSET |-> 23, POWER_LIMIT |-> 24, INVERT_BUTTONS |-> 25,
      TEMP_INCREMENT_LONG |-> 26, TEMP_INCREMENT_SHORT |-> 27,
      HALL_SENSITIVITY |-> 28, ACCEL_WARN_COUNTER |-> 29,
      PD_WARN_COUNTER |-> 30, UI_LANGUAGE |-> 31,
      PD_NEGOTIATION_TIMEOUT |-> 32, DISPLAY_INVERT |-> 33,
      DISPLAY_BRIGHTNESS |-> 34, LOGO_DURATION |-> 35, CALIBRATE_CJC |-> 36,
      BLE_ENABLED |-> 37, USB_PD_MODE |-> 38, SETTINGS_RESET |-> 98,
      SETTINGS_SAVE |-> 99 ]

CharBulkValue ==
    [ LIVE_DATA |-> 0, ACCEL_NAME |-> 1, BUILD |-> 2, DEVICE_SN |-> 3,
      DEVICE_ID |-> 4 ]

CharLiveMembers == {CharLive(n) : n \in DOMAIN CharLiveValue}
CharSettingMembers == {CharSetting(n) : n \in DOMAIN CharSettingValue}
CharBulkMembers == {CharBulk(n) : n \in DOMAIN CharBulkValue}
Characteristic == CharLiveMembers \cup CharSettingMembers \cup CharBulkMembers

(***************************************************************************)
(* CHAR_MAP: uuid, decoding, encoding and input sanitizing method of each  *)
(* characteristic.  An entry is the tuple of the source: <<uuid, decode>>  *)
(* or <<uuid, decode, convert, validate>>; a uuid is written by its first  *)
(* eight hexadecimal digits and a function by its descriptor:              *)
(*   <<"hex", 16>>            lambda x: f"{decode_int(x):016x}"            *)
(*   <<"hex", 0>>             lambda x: f"{decode_int(x):x}"               *)
(*   <<"div10">>              lambda x: decode_int(x) / 10                 *)
(*   <<"pwm">>                lambda x: int(decode_int(x) / 255 * 100)     *)
(*   <<"enum", C>>            lambda x: C(decode_int(x))                   *)
(*   <<"bool">>               lambda x: bool(decode_int(x)) as a decoder,  *)
(*                            bool as a converter                          *)
(*   <<"true">>               lambda _: True                               *)
(*   <<"brightness">>         lambda x: int((decode_int(x) + 24) / 25) as  *)
(*                            a decoder, lambda x: int(25 * x - 24) as a   *)
(*                            converter                                    *)
(*   <<"value_or_int", C>>    lambda x: x.value if isinstance(x, C)        *)
(*                                      else int(x)                        *)
(*   <<"times10">>            lambda x: int(x * 10)                        *)
(*   <<"clip", lo, hi>>       lambda x: clip(x, lo, hi)                    *)
(*   <<"clip_unless_zero", lo, hi>>                                        *)
(*                            lambda x: clip(x, lo, hi) if x != 0 else 0   *)
(*   <<"int">>, <<"decode_int">>, <<"decode_str">>, ...  the function named *)
(***************************************************************************)
CHAR_MAP ==
    (CharBulk("LIVE_DATA") :> <<"9eae1001", <<"decode_live_data">>>>)
    @@ (CharBulk("BUILD") :> <<"9eae1003", <<"decode_str">>>>)
    @@ (CharBulk("DEVICE_SN") :> <<"9eae1004", <<"hex", 16>>>>)
    @@ (CharBulk("DEVICE_ID") :> <<"9eae1005", <<"hex", 0>>>>)
    @@ (CharLive("LIVE_TEMP") :> <<"d85ef001", <<"decode_int">>>>)
    @@ (CharLive("SETPOINT_TEMP") :> <<"d85ef002", <<"decode_int">>>>)
    @@ (CharLive("DC_VOLTAGE") :> <<"d85ef003", <<"div10">>>>)
    @@ (CharLive("HANDLE_TEMP") :> <<"d85ef004", <<"div10">>>>)
    @@ (CharLive("PWM_LEVEL") :> <<"d85ef005", <<"pwm">>>>)
    @@ (CharLive("POWER_SRC") :> <<"d85ef006", <<"enum", "PowerSource">>>>)
    @@ (CharLive("TIP_RESISTANCE") :> <<"d85ef007", <<"div10">>>>)
    @@ (CharLive("UPTIME") :> <<"d85ef008", <<"div10">>>>)
    @@ (CharLive("MOVEMENT_TIME") :> <<"d85ef009", <<"div10">>>>)
    @@ (CharLive("TIP_VOLTAGE") :> <<"d85ef00b", <<"decode_int">>>>)
    @@ (CharLive("HALL_SENSOR") :> <<"d85ef00c", <<"decode_int">>>>)
    @@ (CharLive("OPERATING_MODE") :> <<"d85ef00d",
          <<"enum", "OperatingMode">>>>)
    @@ (CharLive("ESTIMATED_POWER") :> <<"d85ef00e", <<"decode_int">>>>)
    @@ (CharSetting("SETPOINT_TEMP") :> <<"f6d70000",
          <<"decode_int">>, <<"int">>, <<"clip", 10, 450>>>>)
    @@ (CharSetting("SLEEP_TEMP") :> <<"f6d70001",
          <<"decode_int">>, <<"int">>, <<"clip", 10, 450>>>>)
    @@ (CharSetting("SLEEP_TIMEOUT") :> <<"f6d70002",
          <<"decode_int">>, <<"int">>, <<"clip", 0, 15>>>>)
    @@ (CharSetting("MIN_DC_VOLTAGE_CELLS") :> <<"f6d70003",
          <<"enum", "BatteryType">>,
          <<"value_or_int", "BatteryType">>, <<"clip", 0, 4>>>>)
    @@ (CharSetting("MIN_VOLTAGE_PER_CELL") :> <<"f6d70004",
          <<"div10">>, <<"times10">>, <<"clip", 24, 38>>>>)
    @@ (CharSetting("QC_IDEAL_VOLTAGE") :> <<"f6d70005",
          <<"div10">>, <<"times10">>, <<"clip", 90, 220>>>>)
    @@ (CharSetting("ORIENTATION_MODE") :> <<"f6d70006",
          <<"enum", "ScreenOrientationMode">>,
          <<"value_or_int", "ScreenOrientationMode">>, <<"clip", 0, 2>>>>)
    @@ (CharSetting("ACCEL_SENSITIVITY") :> <<"f6d70007",
          <<"decode_int">>, <<"int">>, <<"clip", 0, 9>>>>)
    @@ (CharSetting("ANIMATION_LOOP") :> <<"f6d70008",
          <<"bool">>, <<"bool">>, <<"int">>>>)
    @@ (CharSetting("ANIMATION_SPEED") :> <<"f6d70009",
          <<"enum", "AnimationSpeed">>,
          <<"value_or_int", "AnimationSpeed">>, <<"clip", 0, 3>>>>)
    @@ (CharSetting("AUTOSTART_MODE") :> <<"f6d7000a",
          <<"enum", "AutostartMode">>,
          <<"value_or_int", "AutostartMode">>, <<"clip", 0, 3>>>>)
    @@ (CharSetting("SHUTDOWN_TIME") :> <<"f6d7000b",
          <<"decode_int">>, <<"int">>, <<"clip", 0, 60>>>>)
    @@ (CharSetting("COOLING_TEMP_BLINK") :> <<"f6d7000c",
          <<"bool">>, <<"bool">>, <<"int">>>>)
    @@ (CharSetting("IDLE_SCREEN_DETAILS") :> <<"f6d7000d",
          <<"bool">>, <<"bool">>, <<"int">>>>)
    @@ (CharSetting("SOLDER_SCREEN_DETAILS") :> <<"f6d7000e",
          <<"bool">>, <<"bool">>, <<"int">>>>)
    @@ (CharSetting("TEMP_UNIT") :> <<"f6d7000f",
          <<"enum", "TempUnit">>,
          <<"value_or_int", "TempUnit">>, <<"clip", 0, 1>>>>)
    @@ (CharSetting("DESC_SCROLL_SPEED") :> <<"f6d70010",
          <<"enum", "ScrollSpeed">>,
          <<"value_or_int", "ScrollSpeed">>, <<"clip", 0, 1>>>>)
    @@ (CharSetting("LOCKING_MODE") :> <<"f6d70011",
          <<"enum", "LockingMode">>,
          <<"value_or_int", "LockingMode">>, <<"clip", 0, 2>>>>)
    @@ (CharSetting("KEEP_AWAKE_PULSE_POWER") :> <<"f6d70012",
          <<"div10">>, <<"times10">>, <<"clip", 0, 99>>>>)
    @@ (CharSetting("KEEP_AWAKE_PULSE_DELAY") :> <<"f6d70013",
          <<"decode_int">>, <<"int">>, <<"clip", 0, 9>>>>)
    @@ (CharSetting("KEEP_AWAKE_PULSE_DURATION") :> <<"f6d70014",
          <<"decode_int">>, <<"int">>, <<"clip", 0, 9>>>>)
    @@ (CharSetting("VOLTAGE_DIV") :> <<"f6d70015",
          <<"decode_int">>, <<"int">>, <<"clip", 360, 900>>>>)
    @@ (CharSetting("BOOST_TEMP") :> <<"f6d70016",
          <<"decode_int">>, <<"int">>, <<"clip_unless_zero", 250, 450>>>>)
    @@ (CharSetting("CALIBRATION_OFFSET") :> <<"f6d70017",
          <<"decode_int">>, <<"int">>, <<"clip", 100, 2500>>>>)
    @@ (CharSetting("POWER_LIMIT") :> <<"f6d70018",
          <<"div10">>, <<"times10">>, <<"clip", 0, 120>>>>)
    @@ (CharSetting("INVERT_BUTTONS") :> <<"f6d70019",
          <<"bool">>, <<"bool">>, <<"int">>>>)
    @@ (CharSetting("TEMP_INCREMENT_LONG") :> <<"f6d7001a",
          <<"decode_int">>, <<"int">>, <<"clip", 5, 90>>>>)
    @@ (CharSetting("TEMP_INCREMENT_SHORT") :> <<"f6d7001b",
          <<"decode_int">>, <<"int">>, <<"clip", 1, 50>>>>)
    @@ (CharSetting("HALL_SENSITIVITY") :> <<"f6d7001c",
          <<"decode_int">>, <<"int">>, <<"clip", 0, 9>>>>)
    @@ (CharSetting("ACCEL_WARN_COUNTER") :> <<"f6d7001d",
          <<"decode_int">>, <<"int">>, <<"clip", 0, 9>>>>)
    @@ (CharSetting("PD_WARN_COUNTER") :> <<"f6d7001e",
          <<"decode_int">>, <<"int">>, <<"clip", 0, 9>>>>)
    @@ (CharSetting("UI_LANGUAGE") :> <<"f6d7001f",
          <<"decode_lang_code">>,
          <<"encode_lang_code">>, <<"clip", 0, 65535>>>>)
    @@ (CharSetting("PD_NEGOTIATION_TIMEOUT") :> <<"f6d70020",
          <<"div10">>, <<"times10">>, <<"clip", 0, 50>>>>)
    @@ (CharSetting("DISPLAY_INVERT") :> <<"f6d70021",
          <<"bool">>, <<"bool">>, <<"int">>>>)
    @@ (CharSetting("DISPLAY_BRIGHTNESS") :> <<"f6d70022",
          <<"brightness">>, <<"brightness">>, <<"clip", 1, 101>>>>)
    @@ (CharSetting("LOGO_DURATION") :> <<"f6d70023",
          <<"enum", "LogoDuration">>,
          <<"value_or_int", "LockingMode">>, <<"clip", 0, 6>>>>)
    @@ (CharSetting("CALIBRATE_CJC") :> <<"f6d70024",
          <<"bool">>, <<"bool">>, <<"int">>>>)
    @@ (CharSetting("BLE_ENABLED") :> <<"f6d70025",
          <<"true">>, <<"bool">>, <<"int">>>>)
    @@ (CharSetting("USB_PD_MODE") :> <<"f6d70026",
          <<"bool">>, <<"bool">>, <<"int">>>>)
    @@ (CharSetting("SETTINGS_SAVE") :> <<"f6d7ffff",
          <<"bool">>, <<"bool">>, <<"int">>>>)
    @@ (CharSetting("SETTINGS_RESET") :> <<"f6d7fffe",
          <<"bool">>, <<"bool">>, <<"int">>>>)

\* the descriptor standing for None in the default tuples of CHAR_MAP.get
NoneFn == <<"None">>
NoneUuid == "None"

\* a lookup by the name of the member alone, settings first
CharMapGetByName(characteristic, default) ==
    IF CharSetting(characteristic.name) \in DOMAIN CHAR_MAP
    THEN CHAR_MAP[CharSetting(characteristic.name)]
    ELSE IF characteristic \in DOMAIN CHAR_MAP THEN CHAR_MAP[characteristic]
    ELSE default

\* CHAR_MAP.get(characteristic, default)
CharMapGet(characteristic, default) ==
    IF characteristic \in DOMAIN CHAR_MAP THEN CHAR_MAP[characteristic]
    ELSE default

\* decode(result) for the decoder of an entry
ApplyDecode(decode, x) ==
    CASE decode[1] = "decode_live_data" -> decode_live_data(x)
      [] decode[1] = "decode_str" -> decode_str(x)
      [] decode[1] = "hex" ->
            PyStr(IF decode[2] = 0 THEN FormatHex(x.v)
                  ELSE FormatHexPadded(x.v, decode[2]))
      [] decode[1] = "decode_int" -> decode_int(x)
      [] decode[1] = "div10" -> PyFloat(IntTrueDiv(decode_int(x).v, 10))
      [] decode[1] = "pwm" -> PyInt(PwmPercent(decode_int(x).v))
      [] decode[1] = "enum" -> EnumCtor(decode[2], decode_int(x).v)
      [] decode[1] = "bool" -> py_bool(decode_int(x))
      [] decode[1] = "true" -> PyBool(TRUE)
      [] decode[1] = "decode_lang_code" -> decode_lang_code(x)
      [] decode[1] = "brightness" ->
            PyInt(FloatTrunc(IntTrueDiv(decode_int(x).v + 24, 25)))
      [] OTHER -> Raise("TypeError")

\* convert(value) for the converter of an entry
ApplyConvert(convert, x) ==
    CASE convert[1] = "int" -> py_int(x)
      [] convert[1] = "bool" -> py_bool(x)
      [] convert[1] = "value_or_int" ->
            IF x.t = convert[2] THEN PyInt(x.v) ELSE py_int(x)
      [] convert[1] = "times10" ->
            Raising(py_times10(x), py_int(py_times10(x)))
      [] convert[1] = "encode_lang_code" -> encode_lang_code(x)
      [] convert[1] = "brightness" ->
            Raising(py_brightness(x), py_int(py_brightness(x)))

\* a validator that clips zero as any other value
ApplyValidateClipZero(validate, x) ==
    CASE validate[1] = "clip" -> PyInt(clip(x.v, validate[2], validate[3]))
      [] validate[1] = "int" -> py_int(x)
      [] validate[1] = "clip_unless_zero" ->
            PyInt(clip(x.v, validate[2], validate[3]))

\* validate(x) for the validator of an entry; x is an int or a bool
ApplyValidate(validate, x) ==
    CASE validate[1] = "clip" -> PyInt(clip(x.v, validate[2], validate[3]))
      [] validate[1] = "int" -> py_int(x)
      [] validate[1] = "clip_unless_zero" ->
            IF x.v # 0 THEN PyInt(clip(x.v, validate[2], validate[3]))
            ELSE PyInt(0)

(***************************************************************************)
(* The data path of Pynecil.write, up to the bytes handed to the           *)
(* transport, and the data path of Pynecil.read from the bytes received.   *)
(***************************************************************************)
\* write of anything, with a default converter and validator
WriteEntryUnchecked(setting) ==
    LET entry == CharMapGet(setting, <<NoneUuid, NoneFn, NoneFn, NoneFn>>)
    IN  [t |-> "entry",
         v |-> <<entry[1], entry[2], <<"int">>, <<"clip", 0, 65535>>>>]

\* line 323: uuid, _, convert, validate = CHAR_MAP.get(setting, 4 * (None,))
\* and lines 325-328; the ValueError is that of the raise statement or that
\* of unpacking a two-element entry into four names

WriteEntry(setting) ==
    LET entry == CharMapGet(setting, <<NoneUuid, NoneFn, NoneFn, NoneFn>>)
    IN  IF Len(entry) # 4 THEN Raise("ValueError")
        ELSE IF entry[3][1] = "None" \/ entry[4][1] = "None"
        THEN Raise("ValueError")
        ELSE [t |-> "entry", v |-> entry]

\* the converted value as an int, not validated
WriteDataUnvalidated(entry, value) ==
    Raising(ApplyConvert(entry[3], value),
            py_int(ApplyConvert(entry[3], value)))

\* line 330: data = validate(convert(value))
WriteData(entry, value) ==
    Raising(ApplyConvert(entry[3], value),
            ApplyValidate(entry[4], ApplyConvert(entry[3], value)))

\* the bytes write(setting, value) hands to write_gatt_char, or what it raises
\* before; the transport is taken to succeed
WriteWire(setting, value) ==
    Raising(WriteEntry(setting),
        Raising(WriteData(WriteEntry(setting).v, value),
                encode_int(WriteData(WriteEntry(setting).v, value).v)))

\* read without the check of lines 291-292
ReadEntryUnchecked(characteristic) ==
    [t |-> "entry", v |-> CharMapGet(characteristic, <<NoneUuid, NoneFn>>)]

\* lines 289-292: the entry read resolves, None when there is no decoder
ReadEntry(characteristic) ==
    LET entry == CharMapGet(characteristic, <<NoneUuid, NoneFn>>)
    IN  IF entry[2][1] = "None" \/ entry[1] = NoneUuid THEN PyNone
        ELSE [t |-> "entry", v |-> entry]

\* a read that keeps the live data record of an earlier payload
ReadValueCached(characteristic, result) ==
    IF ReadEntry(characteristic).t = "None" THEN PyNone
    ELSE IF characteristic.name = "LIVE_DATA"
    THEN ApplyDecode(ReadEntry(characteristic).v[2],
                     PyBytes([j \in 1..56 |-> IF j = 1 THEN 241 ELSE 0]))
    ELSE ApplyDecode(ReadEntry(characteristic).v[2], result)

\* what read(characteristic) returns when the transport delivers result
ReadValue(characteristic, result) ==
    IF ReadEntry(characteristic).t = "None" THEN PyNone
    ELSE ApplyDecode(ReadEntry(characteristic).v[2], result)

\* the keys of CHAR_MAP in the order of the dict literal (its iteration order)
CharMapKeys ==
    << CharBulk("LIVE_DATA"), CharBulk("BUILD"), CharBulk("DEVICE_SN"),
       CharBulk("DEVICE_ID"), CharLive("LIVE_TEMP"),
       CharLive("SETPOINT_TEMP"), CharLive("DC_VOLTAGE"),
       CharLive("HANDLE_TEMP"), CharLive("PWM_LEVEL"), CharLive("POWER_SRC"),
       CharLive("TIP_RESISTANCE"), CharLive("UPTIME"),
       CharLive("MOVEMENT_TIME"), CharLive("TIP_VOLTAGE"),
       CharLive("HALL_SENSOR"), CharLive("OPERATING_MODE"),
       CharLive("ESTIMATED_POWER"), CharSetting("SETPOINT_TEMP"),
       CharSetting("SLEEP_TEMP"), CharSetting("SLEEP_TIMEOUT"),
       CharSetting("MIN_DC_VOLTAGE_CELLS"),
       CharSetting("MIN_VOLTAGE_PER_CELL"), CharSetting("QC_IDEAL_VOLTAGE"),
       CharSetting("ORIENTATION_MODE"), CharSetting("ACCEL_SENSITIVITY"),
       CharSetting("ANIMATION_LOOP"), CharSetting("ANIMATION_SPEED"),
       CharSetting("AUTOSTART_MODE"), CharSetting("SHUTDOWN_TIME"),
       CharSetting("COOLING_TEMP_BLINK"), CharSetting("IDLE_SCREEN_DETAILS"),
       CharSetting("SOLDER_SCREEN_DETAILS"), CharSetting("TEMP_UNIT"),
       CharSetting("DESC_SCROLL_SPEED"), CharSetting("LOCKING_MODE"),
       CharSetting("KEEP_AWAKE_PULSE_POWER"),
       CharSetting("KEEP_AWAKE_PULSE_DELAY"),
       CharSetting("KEEP_AWAKE_PULSE_DURATION"), CharSetting("VOLTAGE_DIV"),
       CharSetting("BOOST_TEMP"), CharSetting("CALIBRATION_OFFSET"),
       CharSetting("POWER_LIMIT"), CharSetting("INVERT_BUTTONS"),
       CharSetting("TEMP_INCREMENT_LONG"),
       CharSetting("TEMP_INCREMENT_SHORT"), CharSetting("HALL_SENSITIVITY"),
       CharSetting("ACCEL_WARN_COUNTER"), CharSetting("PD_WARN_COUNTER"),
       CharSetting("UI_LANGUAGE"), CharSetting("PD_NEGOTIATION_TIMEOUT"),
       CharSetting("DISPLAY_INVERT"), CharSetting("DISPLAY_BRIGHTNESS"),
       CharSetting("LOGO_DURATION"), CharSetting("CALIBRATE_CJC"),
       CharSetting("BLE_ENABLED"), CharSetting("USB_PD_MODE"),
       CharSetting("SETTINGS_SAVE"), CharSetting("SETTINGS_RESET") >>

(***************************************************************************)
(* State.                                                                  *)
(*   call, sent, got      one application of a codec: the call, the bytes  *)
(*                        it sends (write) and the value decoded (read)    *)
(*   user_callback        Pynecil was constructed with a caller-supplied   *)
(*                        disconnected_callback                            *)
(*   link                 the transport: "Connected" is is_connected       *)
(*   client_disconnected  Pynecil.client_disconnected                      *)
(*   device_info          Pynecil.device_info                              *)
(*   op                   the API coroutine the caller awaits              *)
(*   tasks                the read / write / connect / disconnect          *)
(*                        coroutines of op, each at its suspension point   *)
(*   calls                the transport calls issued since op began, in    *)
(*                        order (what the mocked BleakClient records)      *)
(*   since_sync           what happened to the link since get_device_info  *)
(*                        last succeeded: "never" (no success yet),        *)
(*                        "clean", "closed" (explicit disconnect) or       *)
(*                        "dropped" (unexpected disconnect)                *)
(***************************************************************************)
VARIABLES call, sent, got, user_callback, link, client_disconnected,
          device_info, op, tasks, calls, since_sync

codecVars == <<call, sent, got>>
clientVars == <<user_callback, link, client_disconnected, device_info, op,
                tasks, calls, since_sync>>
vars == <<call, sent, got, user_callback, link, client_disconnected,
          device_info, op, tasks, calls, since_sync>>

Pending == [t |-> "pending", v |-> 0]
NoCall == [fn |-> "none", char |-> CharBulk("LIVE_DATA"), arg |-> PyNone]

CodecIdle == call = NoCall /\ sent = Pending /\ got = Pending

\* DeviceInfoResponse(address=...): nothing known, not synced
NewDeviceInfo ==
    [build |-> PyNone, device_sn |-> PyNone, device_id |-> PyNone,
     is_synced |-> FALSE]

\* no characteristic: the calls that take none
NoChar == [cls |-> "None", name |-> "None"]

\* no call made yet
NoOp ==
    [kind |-> "none", status |-> "idle", char |-> NoChar, arg |-> PyNone,
     res |-> PyNone, since |-> "never"]

\* the client right after Pynecil(address), class attribute
\* client_disconnected = False, transport not connected
ClientNew ==
    /\ link = "Disconnected"
    /\ client_disconnected = FALSE
    /\ device_info = NewDeviceInfo
    /\ op = NoOp
    /\ tasks = <<>>
    /\ calls = <<>>
    /\ since_sync = "never"

(***************************************************************************)
(* The values given to write.                                              *)
(***************************************************************************)
IntInputs == ((0 - MaxBelow)..MaxInput) \cup {0 - FarInput, FarInput}
TenthsInput(k) ==
    PyFloat(IF k < 0 THEN FloatNeg(IntTrueDiv(0 - k, 10))
            ELSE IntTrueDiv(k, 10))
EnumMembers(cls) == {PyEnum(cls, n) : n \in EnumValues[cls]}
\* digests around the two moduli 65535 and 65536
DigestSamples == {0, 1, 41431, 65534, 65535, 65536, MaxDigest}

(***************************************************************************)
(* SpecWrite: write(setting, value) for every setting and every value,     *)
(* then the device reading back what was sent.                             *)
(***************************************************************************)
InitWrite ==
    /\ ClientNew
    /\ user_callback = FALSE
    /\ sent = Pending
    /\ got = Pending
    /\ \E c \in Characteristic :
        \/ \E x \in IntInputs :
              /\ c \in CharSettingMembers \/ x \in 0..1
              /\ call = [fn |-> "write", char |-> c, arg |-> PyInt(x)]
        \/ \E k \in (0 - MaxBelow)..MaxTenths :
              /\ c \in CharSettingMembers
              /\ call = [fn |-> "write", char |-> c, arg |-> TenthsInput(k)]
        \/ \E b \in BOOLEAN :
              call = [fn |-> "write", char |-> c, arg |-> PyBool(b)]
        \/ \E cls \in EnumClasses : \E m \in EnumMembers(cls) :
              /\ c \in CharSettingMembers
              /\ call = [fn |-> "write", char |-> c, arg |-> m]
        \/ \E d \in DigestSamples :
              /\ c = CharSetting("UI_LANGUAGE")
              /\ call = [fn |-> "write", char |-> c, arg |-> PyStrHashed(d)]
        \/ call = [fn |-> "write", char |-> c, arg |-> PyNone]

\* write(call.char, call.arg) up to the bytes handed to write_gatt_char
CodecWrite ==
    /\ call.fn = "write"
    /\ sent = Pending
    /\ sent' = WriteWire(call.char, call.arg)
    /\ UNCHANGED <<call, got>>
    /\ UNCHANGED clientVars

\* read(call.char) when the device returns the bytes just written
CodecReadBack ==
    /\ call.fn = "write"
    /\ sent.t = "bytes"
    /\ got = Pending
    /\ got' = ReadValue(call.char, sent)
    /\ UNCHANGED <<call, sent>>
    /\ UNCHANGED clientVars

NextWrite == CodecWrite \/ CodecReadBack

SpecWrite == InitWrite /\ [][NextWrite]_vars

(***************************************************************************)
(* SpecLang: encode_lang_code and decode_lang_code on their own.           *)
(***************************************************************************)
InitLang ==
    /\ ClientNew
    /\ user_callback = FALSE
    /\ sent = Pending
    /\ got = Pending
    /\ \/ \E d \in 0..MaxDigest :
              call = [fn |-> "encode_lang_code",
                      char |-> CharSetting("UI_LANGUAGE"),
                      arg |-> PyStrHashed(d)]
       \/ \E m \in EnumMembers("LanguageCode") :
              call = [fn |-> "encode_lang_code",
                      char |-> CharSetting("UI_LANGUAGE"), arg |-> m]
       \/ \E n \in 0..65535 :
              call = [fn |-> "decode_lang_code",
                      char |-> CharSetting("UI_LANGUAGE"),
                      arg |-> encode_int(n)]

CodecEncodeLang ==
    /\ call.fn = "encode_lang_code"
    /\ got = Pending
    /\ got' = encode_lang_code(call.arg)
    /\ UNCHANGED <<call, sent>>
    /\ UNCHANGED clientVars

CodecDecodeLang ==
    /\ call.fn = "decode_lang_code"
    /\ got = Pending
    /\ got' = decode_lang_code(call.arg)
    /\ UNCHANGED <<call, sent>>
    /\ UNCHANGED clientVars

NextLang == CodecEncodeLang \/ CodecDecodeLang

SpecLang == InitLang /\ [][NextLang]_vars

(***************************************************************************)
(* SpecLive: decode_live_data on payloads of 14 unsigned 32-bit integers.  *)
(***************************************************************************)
\* the payload of test_get_live_data
LiveFixture ==
    [i \in 0..13 |->
        <<241, 240, 201, 299, 10, 3, 62, 581, 194, 440, 5726, 0, 1, 25>>[i + 1]]

U32Bytes(n) ==
    <<n % 256, (n \div 256) % 256, (n \div 65536) % 256, n \div 16777216>>

\* what the device sends for the 14 integers r
PackLive(r) ==
    [j \in 1..56 |-> U32Bytes(r[(j - 1) \div 4])[((j - 1) % 4) + 1]]

\* call.arg holds the 14 integers of the device, sent the payload it sends
InitLive ==
    /\ ClientNew
    /\ user_callback = FALSE
    /\ got = Pending
    /\ \E i \in 0..13 : \E x \in 0..MaxRaw :
          /\ call = [fn |-> "decode_live_data", char |-> CharBulk("LIVE_DATA"),
                     arg |-> [t |-> "u32s", v |-> [LiveFixture EXCEPT ![i] = x]]]
          /\ sent = PyBytes(PackLive([LiveFixture EXCEPT ![i] = x]))

CodecLiveData ==
    /\ call.fn = "decode_live_data"
    /\ got = Pending
    /\ got' = decode_live_data(sent)
    /\ UNCHANGED <<call, sent>>
    /\ UNCHANGED clientVars

NextLive == CodecLiveData

SpecLive == InitLive /\ [][NextLive]_vars

(***************************************************************************)
(* The Pynecil client.  asyncio runs a coroutine without interruption up   *)
(* to the next await that suspends, that is up to the next transport call; *)
(* an action is one such stretch.  A task is a read / write / connect /    *)
(* disconnect coroutine; its pc names the transport call it waits for:     *)
(* "disconnecting", "connecting", "io" (read_gatt_char or write_gatt_char) *)
(* or "done".                                                              *)
(***************************************************************************)
\* characteristic.name.lower() for the members of CharSetting
LowerName ==
    [ SETPOINT_TEMP |-> "setpoint_temp", SLEEP_TEMP |-> "sleep_temp",
      SLEEP_TIMEOUT |-> "sleep_timeout",
      MIN_DC_VOLTAGE_CELLS |-> "min_dc_voltage_cells",
      MIN_VOLTAGE_PER_CELL |-> "min_voltage_per_cell",
      QC_IDEAL_VOLTAGE |-> "qc_ideal_voltage",
      ORIENTATION_MODE |-> "orientation_mode",
      ACCEL_SENSITIVITY |-> "accel_sensitivity",
      ANIMATION_LOOP |-> "animation_loop",
      ANIMATION_SPEED |-> "animation_speed",
      AUTOSTART_MODE |-> "autostart_mode", SHUTDOWN_TIME |-> "shutdown_time",
      COOLING_TEMP_BLINK |-> "cooling_temp_blink",
      IDLE_SCREEN_DETAILS |-> "idle_screen_details",
      SOLDER_SCREEN_DETAILS |-> "solder_screen_details",
      TEMP_UNIT |-> "temp_unit", DESC_SCROLL_SPEED |-> "desc_scroll_speed",
      LOCKING_MODE |-> "locking_mode",
      KEEP_AWAKE_PULSE_POWER |-> "keep_awake_pulse_power",
      KEEP_AWAKE_PULSE_DELAY |-> "keep_awake_pulse_delay",
      KEEP_AWAKE_PULSE_DURATION |-> "keep_awake_pulse_duration",
      VOLTAGE_DIV |-> "voltage_div", BOOST_TEMP |-> "boost_temp",
      CALIBRATION_OFFSET |-> "calibration_offset",
      POWER_LIMIT |-> "power_limit", INVERT_BUTTONS |-> "invert_buttons",
      TEMP_INCREMENT_LONG |-> "temp_increment_long",
      TEMP_INCREMENT_SHORT |-> "temp_increment_short",
      HALL_SENSITIVITY |-> "hall_sensitivity",
      ACCEL_WARN_COUNTER |-> "accel_warn_counter",
      PD_WARN_COUNTER |-> "pd_warn_counter", UI_LANGUAGE |-> "ui_language",
      PD_NEGOTIATION_TIMEOUT |-> "pd_negotiation_timeout",
      DISPLAY_INVERT |-> "display_invert",
      DISPLAY_BRIGHTNESS |-> "display_brightness",
      LOGO_DURATION |-> "logo_duration", CALIBRATE_CJC |-> "calibrate_cjc",
      BLE_ENABLED |-> "ble_enabled", USB_PD_MODE |-> "usb_pd_mode",
      SETTINGS_RESET |-> "settings_reset", SETTINGS_SAVE |-> "settings_save" ]

\* an object that is no member of the Characteristic enums
UnknownChar == [cls |-> "MagicMock", name |-> "mock"]

\* the characteristics the caller reads, and those and the values it writes
ReadInputs ==
    { CharLive("LIVE_TEMP"), CharLive("MAX_TIP_TEMP_ABILITY"),
      CharBulk("ACCEL_NAME"), CharSetting("TEMP_UNIT"), UnknownChar }

WriteTargets ==
    { CharSetting("SETPOINT_TEMP"), CharSetting("ANIMATION_LOOP"),
      CharSetting("LOGO_DURATION"), UnknownChar }
    \cup CharLiveMembers \cup CharBulkMembers

WriteValues ==
    <<PyInt(900), PyBool(FALSE), PyEnum("LogoDuration", 6), PyNone>>

\* the lists given to get_settings: members of CharSetting, integer ids and
\* entries that name no setting
ReqMember(c) == [t |-> c.cls, v |-> c.name]
SettingsRequests ==
    << <<ReqMember(CharSetting("SETPOINT_TEMP"))>>,
       <<PyInt(15), ReqMember(CharSetting("SETPOINT_TEMP"))>>,
       <<PyInt(40), ReqMember(CharLive("LIVE_TEMP"))>> >>

\* what the device may answer to a read of characteristic c
Payloads(c) ==
    IF c = CharBulk("BUILD") THEN {<<50, 46, 50, 50>>, <<255>>}
    ELSE IF c = CharBulk("DEVICE_SN")
    THEN {<<239, 205, 171, 144, 120, 86, 52, 18>>, <<1, 0, 0, 0, 0, 0, 0, 0>>}
    ELSE IF c = CharBulk("DEVICE_ID")
    THEN {<<120, 86, 52, 18>>, <<120, 86, 52, 0>>}
    ELSE IF c = CharBulk("LIVE_DATA")
    THEN {PackLive(LiveFixture), PackLive([LiveFixture EXCEPT ![0] = 300]),
          SubSeq(PackLive(LiveFixture), 1, 52), PackLive(LiveFixture) \o <<0>>}
    ELSE {<<0, 0>>, <<1, 0>>, <<2, 0>>}

TransportErrors == {"BleakError", "TimeoutError"}
Outcomes == {"ok"} \cup TransportErrors

NoUuid == "None"
NewTask(kind, char, uuid, data) ==
    [kind |-> kind, char |-> char, uuid |-> uuid, pc |-> "new",
     data |-> data, res |-> PyNone, err |-> "None"]

TransportCall(fn, uuid, data) == [fn |-> fn, uuid |-> uuid, data |-> data]

Running(t) == t.pc # "done"
AllDone(ts) == \A i \in 1..Len(ts) : ~Running(ts[i])

\* the transport call of read / write once connected (lines 296 and 333);
\* encode_int(data) is evaluated here, after connect() has returned
IssueIo(t) ==
    IF t.kind = "connect"
    THEN [task |-> [t EXCEPT !.pc = "done"], log |-> <<>>]
    ELSE IF t.kind = "read"
    THEN [task |-> [t EXCEPT !.pc = "io"],
          log |-> <<TransportCall("read_gatt_char", t.uuid, PyNone)>>]
    ELSE IF IsRaise(encode_int(t.data.v))
    THEN [task |-> [t EXCEPT !.pc = "done", !.res = encode_int(t.data.v)],
          log |-> <<>>]
    ELSE [task |-> [t EXCEPT !.pc = "io"],
          log |-> <<TransportCall("write_gatt_char", t.uuid,
                                  encode_int(t.data.v))>>]

\* read and write going to the transport without connect()
EnterNoConnect(t, lnk, stale) == IssueIo(t)

\* a connect() that never closes the stale connection
EnterConnectNaive(t, lnk, stale) ==
    IF lnk = "Connected" THEN IssueIo(t)
    ELSE [task |-> [t EXCEPT !.pc = "connecting"],
          log |-> <<TransportCall("connect", NoUuid, PyNone)>>]

\* Pynecil.connect (lines 159-162) up to its first transport call, and past
\* it when already connected
EnterConnect(t, lnk, stale) ==
    IF lnk = "Connected" THEN IssueIo(t)
    ELSE IF stale
    THEN [task |-> [t EXCEPT !.pc = "disconnecting"],
          log |-> <<TransportCall("disconnect", NoUuid, PyNone)>>]
    ELSE [task |-> [t EXCEPT !.pc = "connecting"],
          log |-> <<TransportCall("connect", NoUuid, PyNone)>>]

\* a failed transport call let through as it is
FailureUnwrapped(t, e) == Raise(e)

\* the exception a failed transport call becomes in task t: read and write
\* wrap it (lines 300-302, 335-337), connect and disconnect let it through
Failure(t, e) ==
    IF t.kind \in {"read", "write"} THEN RaiseFrom("CommunicationError", e)
    ELSE Raise(e)

\* task t ended by the transport raising e; err keeps what the transport
\* raised
Failed(t, e) ==
    [task |-> [t EXCEPT !.pc = "done", !.res = Failure(t, e), !.err = e],
     log |-> <<>>]

CanStart == op.status # "running" /\ AllDone(tasks)

\* since keeps what since_sync was when the call was made
NewOp(kind, char, arg) ==
    [kind |-> kind, status |-> "running", char |-> char, arg |-> arg,
     res |-> PyNone, since |-> since_sync]
Done(o, res) == [o EXCEPT !.status = "done", !.res = res]

(***************************************************************************)
(* get_device_info and get_settings: the coroutine that awaits the reads.  *)
(***************************************************************************)
PyDeviceInfo(info) == [t |-> "DeviceInfoResponse", v |-> info]

\* lines 195-197: the three reads, in this order
DeviceInfoChars ==
    <<CharBulk("BUILD"), CharBulk("DEVICE_SN"), CharBulk("DEVICE_ID")>>

DeviceInfoField(info, k, val) ==
    IF k = 1 THEN [info EXCEPT !.build = val]
    ELSE IF k = 2 THEN [info EXCEPT !.device_sn = val]
    ELSE [info EXCEPT !.device_id = val]

\* a get_device_info that returns None when a read raised
DeviceInfoQuiet(res) == PyNone

\* lines 199-201: what get_device_info raises when a read raised res
DeviceInfoRaise(res) ==
    IF res.v \in TransportErrors THEN RaiseFrom("CommunicationError", res.v)
    ELSE res

\* get_device_info from its k-th read on, up to the next transport call:
\* a read of an unregistered characteristic returns None at once, and after
\* the third read is_synced is set (line 198)
RECURSIVE DeviceInfoSteps(_, _, _, _)
DeviceInfoSteps(k, info, lnk, stale) ==
    IF k > 3
    THEN [info |-> [info EXCEPT !.is_synced = TRUE], tasks |-> <<>>,
          log |-> <<>>, synced |-> TRUE]
    ELSE IF ReadEntry(DeviceInfoChars[k]).t = "None"
    THEN DeviceInfoSteps(k + 1, DeviceInfoField(info, k, PyNone), lnk, stale)
    ELSE LET e == EnterConnect(
                      NewTask("read", DeviceInfoChars[k],
                              ReadEntry(DeviceInfoChars[k]).v[1], PyNone),
                      lnk, stale)
         IN  [info |-> info, tasks |-> <<e.task>>, log |-> e.log,
              synced |-> FALSE]

\* a filter that knows the members only, not their integer ids
RequestedByMember(settings, c) ==
    \/ settings = <<>>
    \/ \E j \in 1..Len(settings) :
          settings[j].t = "CharSetting" /\ settings[j].v = c.name

\* lines 253-262: the settings get_settings reads, in CHAR_MAP order
Requested(settings, c) ==
    \/ settings = <<>>
    \/ \E j \in 1..Len(settings) :
          settings[j].t = "CharSetting" /\ settings[j].v = c.name
    \/ \E j \in 1..Len(settings) :
          settings[j].t = "int" /\ settings[j].v = CharSettingValue[c.name]

SettingsToRead(settings) ==
    SelectSeq(CharMapKeys,
              LAMBDA c : c.cls = "CharSetting" /\ Requested(settings, c))

\* lines 265-268: the dict of lowercase name and value, in task order
SettingsDict(ts) ==
    [t |-> "dict",
     v |-> [j \in 1..Len(ts) |-> <<LowerName[ts[j].char.name], ts[j].res>>]]

\* task i has become t1 and logged the calls log; if t1 is finished the
\* awaiting coroutine goes on: read, write, get_live_data, connect and
\* disconnect return, get_device_info stores the field and starts its next
\* read, gather raises the first exception or returns when all are done
Resume(i, t1, log, lnk, stale, info, since) ==
    IF Running(t1)
    THEN /\ tasks' = [tasks EXCEPT ![i] = t1]
         /\ calls' = calls \o log
         /\ op' = op
         /\ since_sync' = since
         /\ device_info' = info
    ELSE IF op.kind = "get_device_info"
    THEN IF IsRaise(t1.res)
         THEN /\ op' = Done(op, DeviceInfoRaise(t1.res))
              /\ tasks' = <<t1>>
              /\ calls' = calls \o log
              /\ since_sync' = since
              /\ device_info' = info
         ELSE LET k == CHOOSE j \in 1..3 : DeviceInfoChars[j] = t1.char
                  st == DeviceInfoSteps(k + 1,
                            DeviceInfoField(info, k, t1.res),
                            lnk, stale)
              IN  /\ device_info' = st.info
                  /\ calls' = calls \o log \o st.log
                  /\ tasks' = IF st.synced THEN <<t1>> ELSE st.tasks
                  /\ op' = IF st.synced THEN Done(op, PyDeviceInfo(st.info))
                           ELSE op
                  /\ since_sync' = IF st.synced THEN "clean" ELSE since
    ELSE IF op.kind = "get_settings"
    THEN /\ tasks' = [tasks EXCEPT ![i] = t1]
         /\ calls' = calls \o log
         /\ op' = IF op.status # "running" THEN op
                  ELSE IF IsRaise(t1.res) THEN Done(op, t1.res)
                  ELSE IF AllDone([tasks EXCEPT ![i] = t1])
                  THEN Done(op, SettingsDict([tasks EXCEPT ![i] = t1]))
                  ELSE op
         /\ since_sync' = since
         /\ device_info' = info
    ELSE /\ tasks' = [tasks EXCEPT ![i] = t1]
         /\ calls' = calls \o log
         /\ op' = Done(op, t1.res)
         /\ since_sync' = since
         /\ device_info' = info

\* the same when nothing happened between the return of the transport call
\* and the coroutine running again
Proceed(i, t1, log, lnk, stale) ==
    Resume(i, t1, log, lnk, stale, device_info, since_sync)

(***************************************************************************)
(* The calls of the public methods.  A call starts when the previous one   *)
(* has returned and no read left over by a failed gather is still running; *)
(* it runs to its first transport call within the step.                    *)
(***************************************************************************)
Begin(kind, char, arg, t0) ==
    LET e == EnterConnect(t0, link, client_disconnected)
    IN  /\ tasks' = <<e.task>>
        /\ calls' = e.log
        /\ op' = IF Running(e.task) THEN NewOp(kind, char, arg)
                 ELSE Done(NewOp(kind, char, arg), e.task.res)

Returns(kind, char, arg, res) ==
    /\ tasks' = <<>>
    /\ calls' = <<>>
    /\ op' = Done(NewOp(kind, char, arg), res)

\* Pynecil.read(characteristic)
Read(characteristic) ==
    /\ CanStart
    /\ IF ReadEntry(characteristic).t = "None"
       THEN Returns("read", characteristic, PyNone, PyNone)
       ELSE Begin("read", characteristic, PyNone,
                  NewTask("read", characteristic,
                          ReadEntry(characteristic).v[1], PyNone))
    /\ UNCHANGED <<user_callback, link, client_disconnected, device_info,
                   since_sync>>
    /\ UNCHANGED codecVars

\* Pynecil.get_live_data()
GetLiveData ==
    /\ CanStart
    /\ IF ReadEntry(CharBulk("LIVE_DATA")).t = "None"
       THEN Returns("get_live_data", CharBulk("LIVE_DATA"), PyNone, PyNone)
       ELSE Begin("get_live_data", CharBulk("LIVE_DATA"), PyNone,
                  NewTask("read", CharBulk("LIVE_DATA"),
                          ReadEntry(CharBulk("LIVE_DATA")).v[1], PyNone))
    /\ UNCHANGED <<user_callback, link, client_disconnected, device_info,
                   since_sync>>
    /\ UNCHANGED codecVars

\* Pynecil.write(setting, value)
Write(setting, value) ==
    /\ CanStart
    /\ IF IsRaise(WriteEntry(setting))
       THEN Returns("write", setting, value, WriteEntry(setting))
       ELSE IF IsRaise(WriteData(WriteEntry(setting).v, value))
       THEN Returns("write", setting, value,
                    WriteData(WriteEntry(setting).v, value))
       ELSE Begin("write", setting, value,
                  NewTask("write", setting, WriteEntry(setting).v[1],
                          WriteData(WriteEntry(setting).v, value)))
    /\ UNCHANGED <<user_callback, link, client_disconnected, device_info,
                   since_sync>>
    /\ UNCHANGED codecVars

\* Pynecil.get_device_info()
GetDeviceInfo ==
    /\ CanStart
    /\ IF device_info.is_synced
       THEN /\ Returns("get_device_info", NoChar, PyNone,
                       PyDeviceInfo(device_info))
            /\ UNCHANGED <<device_info, since_sync>>
       ELSE LET st == DeviceInfoSteps(1, device_info, link,
                                      client_disconnected)
            IN  /\ device_info' = st.info
                /\ tasks' = st.tasks
                /\ calls' = st.log
                /\ op' = IF st.synced
                         THEN Done(NewOp("get_device_info", NoChar, PyNone),
                                   PyDeviceInfo(st.info))
                         ELSE NewOp("get_device_info", NoChar, PyNone)
                /\ since_sync' = IF st.synced THEN "clean" ELSE since_sync
    /\ UNCHANGED <<user_callback, link, client_disconnected>>
    /\ UNCHANGED codecVars

\* the reads gather starts for the characteristics cs: each runs to its
\* first transport call before any of the calls returns
RECURSIVE Gathered(_, _, _)
Gathered(cs, lnk, stale) ==
    IF cs = <<>> THEN [tasks |-> <<>>, log |-> <<>>]
    ELSE LET e == EnterConnect(NewTask("read", Head(cs),
                                       ReadEntry(Head(cs)).v[1], PyNone),
                               lnk, stale)
             rest == Gathered(Tail(cs), lnk, stale)
         IN  [tasks |-> <<e.task>> \o rest.tasks, log |-> e.log \o rest.log]

\* Pynecil.get_settings(settings)
GetSettings(settings) ==
    /\ CanStart
    /\ LET g == Gathered(SettingsToRead(settings), link, client_disconnected)
       IN  /\ tasks' = g.tasks
           /\ calls' = g.log
           /\ op' = IF g.tasks = <<>>
                    THEN Done(NewOp("get_settings", NoChar, PyList(settings)),
                              SettingsDict(<<>>))
                    ELSE NewOp("get_settings", NoChar, PyList(settings))
    /\ UNCHANGED <<user_callback, link, client_disconnected, device_info,
                   since_sync>>
    /\ UNCHANGED codecVars

\* Pynecil.connect()
Connect ==
    /\ CanStart
    /\ Begin("connect", NoChar, PyNone,
             NewTask("connect", NoChar, NoUuid, PyNone))
    /\ UNCHANGED <<user_callback, link, client_disconnected, device_info,
                   since_sync>>
    /\ UNCHANGED codecVars

\* Pynecil.disconnect(), up to the transport's disconnect call
Disconnect ==
    /\ CanStart
    /\ tasks' = <<[NewTask("disconnect", NoChar, NoUuid, PyNone)
                     EXCEPT !.pc = "disconnecting"]>>
    /\ calls' = <<TransportCall("disconnect", NoUuid, PyNone)>>
    /\ op' = NewOp("disconnect", NoChar, PyNone)
    /\ UNCHANGED <<user_callback, link, client_disconnected, device_info,
                   since_sync>>
    /\ UNCHANGED codecVars

(***************************************************************************)
(* The transport: each pending call returns or raises, and the link may    *)
(* drop at any time.                                                       *)
(***************************************************************************)
\* BleakClient.disconnect() called by task i returns or raises r; line 167
\* then clears client_disconnected, and connect() goes on to line 162
DisconnectReturns(i, r) ==
    /\ i \in 1..Len(tasks)
    /\ tasks[i].pc = "disconnecting"
    /\ IF r = "ok"
       THEN /\ link' = "Disconnected"
            /\ client_disconnected' = FALSE
            /\ IF tasks[i].kind = "disconnect"
               THEN /\ tasks' = [tasks EXCEPT ![i].pc = "done"]
                    /\ calls' = calls
                    /\ op' = Done(op, PyNone)
                    /\ device_info' = device_info
                    /\ since_sync' = IF since_sync = "clean" THEN "closed"
                                     ELSE since_sync
               ELSE Proceed(i, [tasks[i] EXCEPT !.pc = "connecting"],
                            <<TransportCall("connect", NoUuid, PyNone)>>,
                            "Disconnected", FALSE)
       ELSE /\ UNCHANGED <<link, client_disconnected>>
            /\ Proceed(i, Failed(tasks[i], r).task, <<>>, link,
                       client_disconnected)
    /\ UNCHANGED user_callback
    /\ UNCHANGED codecVars

\* BleakClient.connect() called by task i returns or raises r
ConnectReturns(i, r) ==
    /\ i \in 1..Len(tasks)
    /\ tasks[i].pc = "connecting"
    /\ IF r = "ok"
       THEN /\ link' = "Connected"
            /\ Proceed(i, IssueIo(tasks[i]).task, IssueIo(tasks[i]).log,
                       "Connected", client_disconnected)
       ELSE /\ link' = link
            /\ Proceed(i, Failed(tasks[i], r).task, <<>>, link,
                       client_disconnected)
    /\ UNCHANGED <<user_callback, client_disconnected>>
    /\ UNCHANGED codecVars

\* read_gatt_char / write_gatt_char called by task i returns payload or
\* raises r; a call can only succeed while the link is up
IoReturns(i, r, payload) ==
    /\ i \in 1..Len(tasks)
    /\ tasks[i].pc = "io"
    /\ r = "ok" => link = "Connected"
    /\ IF r # "ok"
       THEN Proceed(i, Failed(tasks[i], r).task, <<>>, link,
                    client_disconnected)
       ELSE IF tasks[i].kind = "read"
       THEN /\ payload \in Payloads(tasks[i].char)
            /\ Proceed(i, [tasks[i] EXCEPT !.pc = "done",
                              !.data = PyBytes(payload),
                              !.res = ReadValue(tasks[i].char,
                                                PyBytes(payload))],
                       <<>>, link, client_disconnected)
       ELSE /\ payload = <<>>
            /\ Proceed(i, [tasks[i] EXCEPT !.pc = "done", !.res = PyNone],
                       <<>>, link, client_disconnected)
    /\ UNCHANGED <<user_callback, link, client_disconnected>>
    /\ UNCHANGED codecVars

\* read_gatt_char / write_gatt_char called by task i returns, and the link
\* drops before the event loop runs the coroutine that awaited it: the
\* transport invokes the disconnected callback first, and the coroutine goes
\* on with the result on a link that is down
IoReturnsDropped(i, payload) ==
    /\ i \in 1..Len(tasks)
    /\ tasks[i].pc = "io"
    /\ link = "Connected"
    /\ link' = "Disconnected"
    /\ client_disconnected' = IF user_callback THEN client_disconnected
                              ELSE TRUE
    /\ LET info == IF user_callback THEN device_info
                   ELSE [device_info EXCEPT !.is_synced = FALSE]
           since == IF since_sync = "never" THEN "never" ELSE "dropped"
           stale == IF user_callback THEN client_disconnected ELSE TRUE
       IN  IF tasks[i].kind = "read"
           THEN /\ payload \in Payloads(tasks[i].char)
                /\ Resume(i, [tasks[i] EXCEPT !.pc = "done",
                                 !.data = PyBytes(payload),
                                 !.res = ReadValue(tasks[i].char,
                                                   PyBytes(payload))],
                          <<>>, "Disconnected", stale, info, since)
           ELSE /\ payload = <<>>
                /\ Resume(i, [tasks[i] EXCEPT !.pc = "done", !.res = PyNone],
                          <<>>, "Disconnected", stale, info, since)
    /\ UNCHANGED user_callback
    /\ UNCHANGED codecVars

\* the link drops unexpectedly and the transport invokes the callback it
\* was given: the default one (lines 115-118) unless the caller supplied
\* its own (line 122)
LinkDrop ==
    /\ link = "Connected"
    /\ link' = "Disconnected"
    /\ IF user_callback
       THEN UNCHANGED <<client_disconnected, device_info>>
       ELSE /\ client_disconnected' = TRUE
            /\ device_info' = [device_info EXCEPT !.is_synced = FALSE]
    /\ since_sync' = IF since_sync = "never" THEN "never" ELSE "dropped"
    /\ UNCHANGED <<user_callback, op, tasks, calls>>
    /\ UNCHANGED codecVars

AllPayloads ==
    UNION {Payloads(c) : c \in {CharBulk("BUILD"), CharBulk("DEVICE_SN"),
                                CharBulk("DEVICE_ID"), CharBulk("LIVE_DATA"),
                                CharLive("LIVE_TEMP")}} \cup {<<>>}

Init ==
    /\ CodecIdle
    /\ ClientNew
    /\ user_callback \in BOOLEAN

Next ==
    \/ \E c \in ReadInputs : Read(c)
    \/ \E c \in WriteTargets : \E j \in 1..Len(WriteValues) :
          Write(c, WriteValues[j])
    \/ GetLiveData
    \/ GetDeviceInfo
    \/ \E i \in 1..Len(SettingsRequests) : GetSettings(SettingsRequests[i])
    \/ Connect
    \/ Disconnect
    \/ \E i \in 1..Len(tasks) : \E r \in Outcomes : DisconnectReturns(i, r)
    \/ \E i \in 1..Len(tasks) : \E r \in Outcomes : ConnectReturns(i, r)
    \/ \E i \in 1..Len(tasks) : \E r \in Outcomes : \E p \in AllPayloads :
          IoReturns(i, r, p)
    \/ \E i \in 1..Len(tasks) : \E p \in AllPayloads : IoReturnsDropped(i, p)
    \/ LinkDrop

Spec == Init /\ [][Next]_vars

(***************************************************************************)
(* Properties of the registry and of read and write.                       *)
(***************************************************************************)
\* C1: the registry is total, so that read() of any member of CharLive,
\* CharSetting or CharBulk resolves a wire identifier and a decoder and
\* reaches the transport with it
C1_RegistryTotal ==
    (op.kind = "read" /\ op.char \in Characteristic)
        => /\ op.char \in DOMAIN CHAR_MAP
           /\ tasks # <<>>
           /\ tasks[1].uuid # NoUuid

\* C2: read(c) of a characteristic without registry entry returns None and
\* makes no transport call (no connect, no disconnect, no read_gatt_char),
\* whatever the state of the connection
C2_UnregisteredRead ==
    (op.kind = "read" /\ op.char \notin DOMAIN CHAR_MAP)
        => /\ op.status = "done"
           /\ op.res.t = "None"
           /\ calls = <<>>
           /\ tasks = <<>>

\* an unregistered member read while a stale connection awaits teardown
C2_Witness ==
    /\ op.kind = "read"
    /\ op.char = CharLive("MAX_TIP_TEMP_ABILITY")
    /\ op.status = "done"
    /\ op.res.t = "None"
    /\ link = "Disconnected"
    /\ client_disconnected

\* C3: write(c, v) to a member of CharLive or CharBulk or to an unknown
\* characteristic raises ValueError (the InvalidOperation error) before any
\* transport call, for every value v
C3_ReadOnlyWrite ==
    (op.kind = "write" /\ op.char \notin CharSettingMembers)
        => /\ op.status = "done"
           /\ op.res.t = "raise"
           /\ op.res.v = "ValueError"
           /\ calls = <<>>
           /\ tasks = <<>>

\* a registered read-only characteristic written while the link is down
C3_Witness ==
    /\ op.kind = "write"
    /\ op.char = CharBulk("BUILD")
    /\ op.arg.t = "bool"
    /\ op.res.t = "raise"
    /\ op.res.v = "ValueError"
    /\ link = "Disconnected"

\* the settings whose converter is int and whose validator is a clip
PlainRange(c) ==
    /\ c \in CharSettingMembers
    /\ c \in DOMAIN CHAR_MAP
    /\ CHAR_MAP[c][3][1] = "int"
    /\ CHAR_MAP[c][4][1] = "clip"

Clamp(x, lo, hi) == IF x < lo THEN lo ELSE IF x > hi THEN hi ELSE x
LittleEndian2(n) == <<n % 256, n \div 256>>

SettingsDataResponse ==
    [
      SETPOINT_TEMP |-> <<"int", 10, 450>>,
      SLEEP_TEMP |-> <<"int", 10, 450>>,
      SLEEP_TIMEOUT |-> <<"int", 0, 15>>,
      MIN_DC_VOLTAGE_CELLS |-> <<"enum", "BatteryType">>,
      MIN_VOLTAGE_PER_CELL |-> <<"tenths", 24, 38>>,
      QC_IDEAL_VOLTAGE |-> <<"tenths", 90, 220>>,
      ORIENTATION_MODE |-> <<"enum", "ScreenOrientationMode">>,
      ACCEL_SENSITIVITY |-> <<"int", 0, 9>>,
      ANIMATION_LOOP |-> <<"bool">>,
      ANIMATION_SPEED |-> <<"enum", "AnimationSpeed">>,
      AUTOSTART_MODE |-> <<"enum", "AutostartMode">>,
      SHUTDOWN_TIME |-> <<"int", 0, 60>>,
      COOLING_TEMP_BLINK |-> <<"bool">>,
      IDLE_SCREEN_DETAILS |-> <<"bool">>,
      SOLDER_SCREEN_DETAILS |-> <<"bool">>,
      TEMP_UNIT |-> <<"enum", "TempUnit">>,
      DESC_SCROLL_SPEED |-> <<"enum", "ScrollSpeed">>,
      LOCKING_MODE |-> <<"enum", "LockingMode">>,
      KEEP_AWAKE_PULSE_POWER |-> <<"tenths", 0, 99>>,
      KEEP_AWAKE_PULSE_DELAY |-> <<"int", 1, 9>>,
      KEEP_AWAKE_PULSE_DURATION |-> <<"int", 1, 9>>,
      VOLTAGE_DIV |-> <<"int", 360, 900>>,
      BOOST_TEMP |-> <<"int", 0, 450>>,
      CALIBRATION_OFFSET |-> <<"int", 100, 2500>>,
      POWER_LIMIT |-> <<"tenths", 0, 120>>,
      INVERT_BUTTONS |-> <<"bool">>,
      TEMP_INCREMENT_LONG |-> <<"int", 5, 90>>,
      TEMP_INCREMENT_SHORT |-> <<"int", 1, 50>>,
      HALL_SENSITIVITY |-> <<"int", 0, 9>>,
      ACCEL_WARN_COUNTER |-> <<"int", 0, 9>>,
      PD_WARN_COUNTER |-> <<"int", 0, 9>>,
      UI_LANGUAGE |-> <<"enum", "LanguageCode">>,
      PD_NEGOTIATION_TIMEOUT |-> <<"tenths", 0, 50>>,
      DISPLAY_INVERT |-> <<"bool">>,
      DISPLAY_BRIGHTNESS |-> <<"int", 1, 5>>,
      LOGO_DURATION |-> <<"enum", "LogoDuration">>,
      CALIBRATE_CJC |-> <<"bool">>,
      BLE_ENABLED |-> <<"bool">>,
      USB_PD_MODE |-> <<"bool">>,
      SETTINGS_SAVE |-> <<"bool">>,
      SETTINGS_RESET |-> <<"bool">> ]

InDocumentedDomain(setting, value) ==
    LET d == SettingsDataResponse[setting.name]
    IN  CASE d[1] = "int" -> value.t = "int" /\ value.v \in d[2]..d[3]
          [] d[1] = "tenths" ->
                /\ value.t = "float"
                /\ \E k \in d[2]..d[3] : value.v = IntTrueDiv(k, 10)
          [] d[1] = "bool" -> value.t = "bool"
          [] d[1] = "enum" -> value.t = d[2]

\* C5: for every member s of CharSetting and every value v in the
\* documented domain of s, write(s, v) sends bytes, and decoding these bytes
\* with the decoder of s gives back v
C5_RoundTrip ==
    (call.fn = "write" /\ call.char \in CharSettingMembers
        /\ sent.t # "pending" /\ InDocumentedDomain(call.char, call.arg))
        => /\ sent.t = "bytes"
           /\ got.t # "pending" => PyEq(got, call.arg)

(***************************************************************************)
(* Properties of the codecs.                                               *)
(***************************************************************************)
\* the fields of the record g other than pwm_level, for the integers r
LiveFields(r, g) ==
    /\ g.live_temp = PyInt(r[0])
    /\ g.setpoint_temp = PyInt(r[1])
    /\ g.dc_voltage = PyFloat(IntTrueDiv(r[2], 10))
    /\ g.handle_temp = PyFloat(IntTrueDiv(r[3], 10))
    /\ g.power_src = PyEnum("PowerSource", r[5])
    /\ g.tip_resistance = PyFloat(IntTrueDiv(r[6], 10))
    /\ g.uptime = PyFloat(IntTrueDiv(r[7], 10))
    /\ g.movement_time = PyFloat(IntTrueDiv(r[8], 10))
    /\ g.max_tip_temp_ability = PyInt(r[9])
    /\ g.tip_voltage = PyInt(r[10])
    /\ g.hall_sensor = PyInt(r[11])
    /\ g.operating_mode = PyEnum("OperatingMode", r[12])
    /\ g.estimated_power = PyFloat(IntTrueDiv(r[13], 10))

LiveDecoded ==
    /\ call.fn = "decode_live_data"
    /\ got.t # "pending"
    /\ call.arg.v[5] \in EnumValues["PowerSource"]
    /\ call.arg.v[12] \in EnumValues["OperatingMode"]

\* C6 as stated: the 14 little-endian integers r map to the record in the
\* fixed field order, with pwm_level = floor(r4 * 100 / 255)
C6_LiveDataFloor ==
    LiveDecoded
        => /\ got.t = "LiveDataResponse"
           /\ LiveFields(call.arg.v, got.v)
           /\ got.v.pwm_level = PyInt((call.arg.v[4] * 100) \div 255)

\* C6: the 14 little-endian integers r map to the record in the fixed field
\* order; pwm_level is the truncation of the double r4 / 255 * 100, which is
\* floor(r4 * 100 / 255) for r4 up to 1172 (the whole range 0..255 of a duty
\* cycle included), 459 and not 460 at r4 = 1173, and never further than
\* one below the floor
C6_LiveDataTable ==
    LiveDecoded
        => /\ got.t = "LiveDataResponse"
           /\ LiveFields(call.arg.v, got.v)
           /\ got.v.pwm_level.t = "int"
           /\ LET r4 == call.arg.v[4]
                  pwm == got.v.pwm_level.v
              IN  /\ r4 <= 1172 => pwm = (r4 * 100) \div 255
                  /\ r4 = 1173 => pwm = 459
                  /\ pwm \in {(r4 * 100) \div 255 - 1, (r4 * 100) \div 255}

\* the payload whose fifth integer is 1173
C6_Witness ==
    /\ LiveDecoded
    /\ call.arg.v[4] = 1173
    /\ got.t = "LiveDataResponse"
    /\ got.v.pwm_level.v = 459
    /\ got.v.dc_voltage = PyFloat(IntTrueDiv(201, 10))

LangHashed ==
    /\ call.fn = "encode_lang_code"
    /\ call.arg.t = "str"
    /\ got.t # "pending"

\* C7 as stated: for a string whose SHA-1 digest is the integer d,
\* encode_lang_code returns d mod 65536, a value in 0..65535
C7_LangHashMod65536 ==
    LangHashed
        => /\ got.t = "int"
           /\ got.v = call.arg.v.sha1 % 65536
           /\ got.v \in 0..65535

\* C7: for a string whose SHA-1 digest is the integer d, encode_lang_code
\* returns d mod 65535, a value in 0..65534
C7_LangHashMod65535 ==
    LangHashed
        => /\ got.t = "int"
           /\ got.v = call.arg.v.sha1 % 65535
           /\ got.v \in 0..65534

\* the digest 65535 hashes to 0
C7_Witness ==
    /\ LangHashed
    /\ call.arg.v.sha1 = 65535
    /\ got.t = "int"
    /\ got.v = 0

\* C8: decode_lang_code on the two bytes of a 16-bit integer n returns n
\* itself, raising nothing, when n is the value of no LanguageCode member,
\* and the member when n is the value of one
C8_LangDecode ==
    (call.fn = "decode_lang_code" /\ got.t # "pending")
        => LET n == call.arg.v[1] + 256 * call.arg.v[2]
           IN  IF n \in LanguageCodeValues
               THEN got.t = "LanguageCode" /\ got.v = n
               ELSE got.t = "int" /\ got.v = n

\* 65535, which is the value of no member, comes back as it is
C8_Witness ==
    /\ call.fn = "decode_lang_code"
    /\ call.arg.v = <<255, 255>>
    /\ got.t = "int"
    /\ got.v = 65535

(***************************************************************************)
(* Properties of the client.                                               *)
(***************************************************************************)
WrappingCalls ==
    {"read", "write", "get_device_info", "get_live_data", "get_settings"}

\* C9: when a transport call made for read, write, get_device_info,
\* get_live_data or get_settings raises BleakError or TimeoutError while the
\* caller awaits the call, the caller gets CommunicationError with that
\* exception as its cause, and nothing else
C9_TransportFailureWrapped ==
    [][\A i \in 1..Len(tasks) :
          (/\ op.status = "running"
           /\ op.kind \in WrappingCalls
           /\ i <= Len(tasks')
           /\ tasks[i].err = "None"
           /\ tasks'[i].err # "None")
          => /\ tasks'[i].err \in TransportErrors
             /\ op'.status = "done"
             /\ op'.res.t = "raise"
             /\ op'.res.v = "CommunicationError"
             /\ op'.res.cause = tasks'[i].err]_vars

\* get_settings has raised CommunicationError for the TimeoutError of the
\* connect() one of its reads made
C9_Witness ==
    /\ op.kind = "get_settings"
    /\ op.status = "done"
    /\ op.res.t = "raise"
    /\ op.res.v = "CommunicationError"
    /\ op.res.cause = "TimeoutError"
    /\ Len(tasks) = 2
    /\ tasks[2].err = "TimeoutError"
    /\ tasks[2].pc = "done"
    /\ Len(calls) = 2
    /\ calls[2].fn = "connect"

ReadsIn(log) ==
    {log[k].uuid : k \in {j \in 1..Len(log) : log[j].fn = "read_gatt_char"}}

\* C10: a get_device_info call made after one has succeeded and no
\* disconnect has happened since makes no transport call and returns the
\* cached record; a call made after an unexpected disconnect reads the
\* device again: build, serial number and device id when it succeeds
C10_DeviceInfoCache ==
    op.kind = "get_device_info"
        => /\ op.since = "clean"
                => /\ op.status = "done"
                   /\ calls = <<>>
                   /\ op.res.t = "DeviceInfoResponse"
           /\ op.since = "dropped"
                => /\ calls # <<>>
                   /\ (op.status = "done" /\ op.res.t = "DeviceInfoResponse")
                        => ReadsIn(calls) = {"9eae1003", "9eae1004", "9eae1005"}


\* a step in which the link drops unexpectedly: the link goes down and no
\* coroutine moves (when the transport's disconnect() returns, the
\* coroutine that called it moves on)
DropStep ==
    /\ link = "Connected"
    /\ link' = "Disconnected"
    /\ Len(tasks') = Len(tasks)
    /\ \A i \in 1..Len(tasks) : tasks'[i].pc = tasks[i].pc

\* C11: whether or not the client was given a disconnected_callback, an
\* unexpected drop of the link leaves client_disconnected true and
\* device_info.is_synced false
C11_DropObserved ==
    [][DropStep => (client_disconnected' /\ ~device_info'.is_synced)]_vars

\* C12: when disconnect() has returned, device_info.is_synced is false
C12_DisconnectInvalidates ==
    (op.kind = "disconnect" /\ op.status = "done" /\ ~IsRaise(op.res))
        => ~device_info.is_synced


\* coroutine i is, after the step, at a transport call it was not at before
Arrives(i, pc) ==
    /\ i \in 1..Len(tasks')
    /\ tasks'[i].pc = pc
    /\ ~(/\ i <= Len(tasks)
         /\ tasks[i].pc = pc
         /\ tasks[i].kind = tasks'[i].kind
         /\ tasks[i].char.name = tasks'[i].char.name)

\* C13: read_gatt_char and write_gatt_char are issued while the link is up,
\* by a coroutine whose transport connect() has just returned when the link
\* was down before; and the transport connect() is only called while the
\* link is down
C13_ConnectIfNeeded ==
    [][\A i \in 1..Len(tasks') :
          /\ Arrives(i, "io")
                => /\ link' = "Connected"
                   /\ link = "Disconnected"
                        => /\ i <= Len(tasks)
                           /\ tasks[i].pc = "connecting"
                           /\ \E k \in 1..Len(calls) : calls[k].fn = "connect"
          /\ Arrives(i, "connecting") => link' = "Disconnected"]_vars

\* a read that had to connect first now waits for read_gatt_char
C13_Witness ==
    /\ op.kind = "read"
    /\ op.status = "running"
    /\ tasks[1].pc = "io"
    /\ link = "Connected"
    /\ Len(calls) = 2
    /\ calls[1].fn = "connect"
    /\ calls[2].fn = "read_gatt_char"


CallsOf(log, fn) == {k \in 1..Len(log) : log[k].fn = fn}

\* the calls of the connect() that runs or ran last: those after the last
\* read_gatt_char or write_gatt_char of the log
LastConnect(log) ==
    {k \in 1..Len(log) :
        /\ log[k].fn \in {"connect", "disconnect"}
        /\ \A j \in k..Len(log) :
              log[j].fn \notin {"read_gatt_char", "write_gatt_char"}}

\* in the calls of one connect(): at most one disconnect and one connect,
\* the disconnect first
TeardownFirst(log) ==
    /\ Cardinality(CallsOf(log, "disconnect") \cap LastConnect(log)) <= 1
    /\ Cardinality(CallsOf(log, "connect") \cap LastConnect(log)) <= 1
    /\ \A d \in CallsOf(log, "disconnect") \cap LastConnect(log) :
          \A c \in CallsOf(log, "connect") \cap LastConnect(log) : d < c

\* coroutine i sees its transport connect() return with the link up
Connected(i) ==
    /\ i \in 1..Len(tasks)
    /\ tasks[i].pc = "connecting"
    /\ link = "Disconnected"
    /\ link' = "Connected"

\* C14: a connect() that finds the link down and client_disconnected set
\* calls the transport's connect() only when the transport's disconnect()
\* has returned, each of them once, and client_disconnected is false from
\* then until connect() returns; a disconnect() that has returned leaves
\* client_disconnected false.  The calls are counted for the methods that
\* run one connect() at a time, all but get_settings.
C14_StaleTeardown ==
    [][/\ \A i \in 1..Len(tasks') :
             Arrives(i, "connecting")
                => /\ ~client_disconnected'
                   /\ client_disconnected
                        => (i <= Len(tasks) /\ tasks[i].pc = "disconnecting")
       /\ op'.kind \notin {"none", "get_settings"}
             => /\ TeardownFirst(calls')
                /\ \A i \in 1..Len(tasks) :
                      Connected(i) => ~client_disconnected'
       /\ (op'.kind = "disconnect" /\ op'.status = "done"
             /\ ~IsRaise(op'.res)) => ~client_disconnected']_vars

\* connect() on a stale connection has closed it and connected again
C14_Witness ==
    /\ op.kind = "connect"
    /\ op.status = "done"
    /\ ~IsRaise(op.res)
    /\ Len(calls) = 2
    /\ calls[1].fn = "disconnect"
    /\ calls[2].fn = "connect"
    /\ link = "Connected"
    /\ ~client_disconnected


(***************************************************************************)
(* SpecSettings: one get_settings(L) on a new client, for the empty list,  *)
(* for every list of one member or one integer id and for every list of    *)
(* an id and a member.  The transport answers the calls in the order they  *)
(* were made, and every read returns the integer 1.                        *)
(***************************************************************************)
InitSettings ==
    /\ CodecIdle
    /\ ClientNew
    /\ user_callback = FALSE

CallGetSettings ==
    /\ op.kind = "none"
    /\ \/ GetSettings(<<>>)
       \/ \E c \in CharSettingMembers \cup CharLiveMembers :
             GetSettings(<<ReqMember(c)>>)
       \/ \E n \in 0..MaxSettingId : GetSettings(<<PyInt(n)>>)
       \/ \E n \in 0..MaxSettingId : \E c \in CharSettingMembers :
             GetSettings(<<PyInt(n), ReqMember(c)>>)

\* the coroutine whose transport call is the oldest one not yet answered:
\* the connect() calls were all made by gather, each read_gatt_char when
\* the connect() before it returned
Oldest(i) ==
    /\ i \in 1..Len(tasks)
    /\ Running(tasks[i])
    /\ \A j \in 1..Len(tasks) :
          \/ j = i
          \/ ~Running(tasks[j])
          \/ tasks[i].pc = "connecting" /\ tasks[j].pc = "io"
          \/ tasks[i].pc = tasks[j].pc /\ i < j

AnswerConnect == \E i \in 1..Len(tasks) : Oldest(i) /\ ConnectReturns(i, "ok")

AnswerRead == \E i \in 1..Len(tasks) : Oldest(i) /\ IoReturns(i, "ok", <<1, 0>>)

NextSettings == CallGetSettings \/ AnswerConnect \/ AnswerRead

SpecSettings == InitSettings /\ [][NextSettings]_vars

\* the members of CharSetting that the list L names, all when L is empty
Named(L) ==
    IF Len(L) = 0 THEN CharSettingMembers
    ELSE {c \in CharSettingMembers :
            \E j \in 1..Len(L) :
               \/ L[j].t = "CharSetting" /\ L[j].v = c.name
               \/ L[j].t = "int" /\ L[j].v = CharSettingValue[c.name]}

C16_LiveDataFresh ==
    (op.kind = "get_live_data" /\ op.status = "done")
        => /\ Len(tasks) = 1
           /\ \A k \in CallsOf(calls, "read_gatt_char") :
                 calls[k].uuid = CHAR_MAP[CharBulk("LIVE_DATA")][1]
           /\ Cardinality(CallsOf(calls, "read_gatt_char")) <= 1
           /\ Cardinality(CallsOf(calls, "read_gatt_char")) = 0
                 => /\ IsRaise(op.res)
                    /\ op.res.v = "CommunicationError"
           /\ ~IsRaise(op.res)
                 => /\ tasks[1].data.t = "bytes"
                    /\ PyEq(op.res, decode_live_data(tasks[1].data))

\* a second payload, with live_temp 300, read and returned
C16_Witness ==
    /\ op.kind = "get_live_data"
    /\ op.status = "done"
    /\ op.res.t = "LiveDataResponse"
    /\ op.res.v.live_temp.v = 300
    /\ Cardinality(CallsOf(calls, "read_gatt_char")) = 1


(***************************************************************************)
(* SpecRead: read(characteristic) of a setting or a live value when the    *)
(* device returns a raw integer, and of the serial number and the device   *)
(* id when the device returns 8 and 4 bytes; and write(setting, value) of  *)
(* a bool to a setting and of the member SAFE of the tests to USB_PD_MODE, *)
(* up to the bytes sent.                                                   *)
(***************************************************************************)
\* the bytes of the identifiers: zero, a byte below 16 and a byte above
IdBytes == {0, 7, 171}

\* the identifiers the device may return in n bytes, least significant first
RECURSIVE IdPayloads(_)
IdPayloads(n) ==
    IF n = 0 THEN {<<>>}
    ELSE {<<b>> \o p : b \in IdBytes, p \in IdPayloads(n - 1)}

InitRead ==
    /\ ClientNew
    /\ user_callback = FALSE
    /\ got = Pending
    /\ \/ \E c \in CharSettingMembers \cup CharLiveMembers :
          \E n \in 0..MaxRawRead :
             /\ call = [fn |-> "read", char |-> c, arg |-> PyInt(n)]
             /\ sent = PyBytes(<<n % 256, n \div 256>>)
       \/ \E p \in IdPayloads(8) :
             /\ call = [fn |-> "read", char |-> CharBulk("DEVICE_SN"),
                        arg |-> PyNone]
             /\ sent = PyBytes(p)
       \/ \E p \in IdPayloads(4) :
             /\ call = [fn |-> "read", char |-> CharBulk("DEVICE_ID"),
                        arg |-> PyNone]
             /\ sent = PyBytes(p)
       \/ \E c \in CharSettingMembers : \E b \in BOOLEAN :
             /\ call = [fn |-> "write", char |-> c, arg |-> PyBool(b)]
             /\ sent = Pending
       \/ /\ call = [fn |-> "write", char |-> CharSetting("USB_PD_MODE"),
                      arg |-> PyEnum("USBPDMode", 2)]
          /\ sent = Pending

\* read(call.char) when the device returns the bytes sent
CodecRead ==
    /\ call.fn = "read"
    /\ got = Pending
    /\ got' = ReadValue(call.char, sent)
    /\ UNCHANGED <<call, sent>>
    /\ UNCHANGED clientVars

NextRead == CodecRead \/ CodecWrite

SpecRead == InitRead /\ [][NextRead]_vars

\* C17: the serial number read from 8 bytes has 16 hexadecimal digits and
\* the device id read from 4 bytes has 8, whatever the bytes are
C17_IdentifierWidth ==
    (call.fn = "read" /\ call.char.cls = "CharBulk" /\ got.t # "pending")
        => /\ got.t = "str"
           /\ call.char.name = "DEVICE_SN" => Len(got.v) = 16
           /\ call.char.name = "DEVICE_ID" => Len(got.v) = 8


\* the settings documented as bool, the two write-triggers aside
BooleanFlags ==
    {c \in CharSettingMembers :
        /\ SettingsDataResponse[c.name][1] = "bool"
        /\ c.name \notin {"SETTINGS_SAVE", "SETTINGS_RESET"}}

\* C18: a boolean-flag setting, BLE_ENABLED among them, reads as true when
\* the raw integer is not zero and as false when it is zero, and a write of
\* true sends 1 and a write of false sends 0
C18_BooleanFlags ==
    (call.char \in BooleanFlags)
        => /\ (call.fn = "read" /\ got.t # "pending")
                => got.t = "bool" /\ got.v = (call.arg.v # 0)
           /\ (call.fn = "write" /\ sent.t # "pending")
                => /\ sent.t = "bytes"
                   /\ sent.v = <<IF call.arg.v THEN 1 ELSE 0, 0>>

\* the settings the specification and the tests read as a member of an Enum
\* class, UI_LANGUAGE aside, and the class of each
EnumSettingClass ==
    [ MIN_DC_VOLTAGE_CELLS |-> "BatteryType",
      ORIENTATION_MODE |-> "ScreenOrientationMode",
      ANIMATION_SPEED |-> "AnimationSpeed",
      AUTOSTART_MODE |-> "AutostartMode",
      TEMP_UNIT |-> "TempUnit",
      DESC_SCROLL_SPEED |-> "ScrollSpeed",
      LOCKING_MODE |-> "LockingMode",
      LOGO_DURATION |-> "LogoDuration",
      USB_PD_MODE |-> "USBPDMode" ]

\* C20: an enum-valued setting other than UI_LANGUAGE reads as the member
\* of its class with the raw integer as value, and a raw integer that is
\* the value of no member ends the read in an error: no member, no int, no
\* bool and no None is returned for it.  The members of USBPDMode are not
\* in types.py, so for USB_PD_MODE the result is a member of that class
\* or an error
C20_EnumDomain ==
    (/\ call.fn = "read"
     /\ call.char.cls = "CharSetting"
     /\ call.char.name \in DOMAIN EnumSettingClass
     /\ got.t # "pending")
        => LET cls == EnumSettingClass[call.char.name]
           IN  IF cls \notin EnumClasses
               THEN IsRaise(got) \/ got.t = cls
               ELSE IF call.arg.v \in EnumValues[cls]
               THEN got.t = cls /\ got.v = call.arg.v
               ELSE IsRaise(got)


\* C19: what write sends for SETTINGS_SAVE and for SETTINGS_RESET does not
\* depend on the value given: it is what a write of true sends
C19_TriggerConstant ==
    (/\ call.fn = "write"
     /\ call.char \in {CharSetting("SETTINGS_SAVE"), CharSetting("SETTINGS_RESET")}
     /\ sent.t # "pending")
        => PyEq(sent, WriteWire(call.char, PyBool(TRUE)))


\* the values of the members of USBPDMode: SAFE is 2 in the tests
\* (test_live.py:329), and the values of an Enum class here start at 0
USBPDModeValues == 0..2

\* C21: USB_PD_MODE read from the raw integer 2 is the member SAFE of
\* USBPDMode and no bool, two raw integers of the domain read as two
\* members, and a write of SAFE sends 2
C21_UsbPdModeEnum ==
    (call.char = CharSetting("USB_PD_MODE"))
        => /\ (call.fn = "read" /\ got.t # "pending"
                  /\ call.arg.v \in USBPDModeValues)
                => /\ got.t = "USBPDMode"
                   /\ got.v = call.arg.v
                   /\ \A n \in USBPDModeValues \ {call.arg.v} :
                         ~PyEq(got, ReadValue(call.char,
                                              PyBytes(<<n, 0>>)))
           /\ (call.fn = "write" /\ call.arg.t = "USBPDMode"
                  /\ sent.t # "pending")
                => sent.t = "bytes" /\ sent.v = <<call.arg.v, 0>>


\* C22: every entry of a member of CharSetting has a converter and a
\* validator and every entry of a member of CharLive or CharBulk has
\* neither, every member of CharSetting has an entry, and so write gets as
\* far as the bytes for the members of CharSetting only (unless the
\* converter refuses the value): for every other characteristic it raises
\* ValueError
C22_EntryShape ==
    /\ \A c \in DOMAIN CHAR_MAP :
          IF c.cls = "CharSetting"
          THEN /\ Len(CHAR_MAP[c]) = 4
               /\ CHAR_MAP[c][3][1] # "None"
               /\ CHAR_MAP[c][4][1] # "None"
          ELSE Len(CHAR_MAP[c]) = 2
    /\ CharSettingMembers \subseteq DOMAIN CHAR_MAP
    /\ (call.fn = "write" /\ sent.t # "pending")
          => /\ call.char \notin CharSettingMembers
                  => sent.t = "raise" /\ sent.v = "ValueError"
             /\ call.char \in CharSettingMembers
                  => \/ sent.t = "bytes"
                     \/ /\ IsRaise(sent)
                        /\ IsRaise(ApplyConvert(CHAR_MAP[call.char][3],
                                                call.arg))

\* the live value SETPOINT_TEMP, of the same name as a setting, is refused
C22_Witness ==
    /\ call.fn = "write"
    /\ call.char = CharLive("SETPOINT_TEMP")
    /\ call.arg.t = "int"
    /\ sent.t = "raise"
    /\ sent.v = "ValueError"


\* C23: for every member of CharSetting and every value its converter
\* accepts, negative, zero or huge, the integer write hands to encode_int
\* lies in 0..65535: to_bytes never raises OverflowError and two bytes are
\* sent, the integer in little-endian order
C23_TwoBytes ==
    (call.fn = "write" /\ call.char \in CharSettingMembers
        /\ sent.t # "pending")
        => IF IsRaise(ApplyConvert(CHAR_MAP[call.char][3], call.arg))
           THEN IsRaise(sent) /\ sent.v # "OverflowError"
           ELSE /\ sent.t = "bytes"
                /\ Len(sent.v) = 2
                /\ \A j \in 1..2 : sent.v[j] \in 0..255
                /\ WriteData(CHAR_MAP[call.char], call.arg).t = "int"
                /\ WriteData(CHAR_MAP[call.char], call.arg).v \in 0..65535
                /\ sent.v[1] + 256 * sent.v[2]
                     = WriteData(CHAR_MAP[call.char], call.arg).v

\* a huge value written to SETPOINT_TEMP is sent as 450
C23_Witness ==
    /\ call.fn = "write"
    /\ call.char = CharSetting("SETPOINT_TEMP")
    /\ call.arg.t = "int"
    /\ call.arg.v = FarInput
    /\ sent.t = "bytes"
    /\ sent.v = <<194, 1>>


\* C24: when the payload read by get_live_data has not 56 bytes, the call
\* ends in the error of the decoder (struct.error), which reaches the
\* caller as it is: no LiveDataResponse is returned and the read that
\* brought the payload is the last transport call
C24_MalformedLiveData ==
    (/\ op.kind = "get_live_data"
     /\ op.status = "done"
     /\ Len(tasks) = 1
     /\ tasks[1].data.t = "bytes"
     /\ Len(tasks[1].data.v) # 56)
        => /\ IsRaise(op.res)
           /\ op.res.v = "struct.error"
           /\ Cardinality(CallsOf(calls, "read_gatt_char")) = 1
           /\ calls[Len(calls)].fn = "read_gatt_char"

\* a payload of 52 bytes, read after a reconnect
C24_Witness ==
    /\ op.kind = "get_live_data"
    /\ op.status = "done"
    /\ Len(tasks) = 1
    /\ tasks[1].data.t = "bytes"
    /\ Len(tasks[1].data.v) = 52
    /\ IsRaise(op.res)
    /\ op.res.v = "struct.error"
    /\ Len(calls) = 3


\* the field of LiveDataResponse that holds the live value of each member
\* of CharLive; the value of the member is its position in the payload
LiveFieldName ==
    [ LIVE_TEMP |-> "live_temp", SETPOINT_TEMP |-> "setpoint_temp",
      DC_VOLTAGE |-> "dc_voltage", HANDLE_TEMP |-> "handle_temp",
      PWM_LEVEL |-> "pwm_level", POWER_SRC |-> "power_src",
      TIP_RESISTANCE |-> "tip_resistance", UPTIME |-> "uptime",
      MOVEMENT_TIME |-> "movement_time",
      MAX_TIP_TEMP_ABILITY |-> "max_tip_temp_ability",
      TIP_VOLTAGE |-> "tip_voltage", HALL_SENSOR |-> "hall_sensor",
      OPERATING_MODE |-> "operating_mode",
      ESTIMATED_POWER |-> "estimated_power" ]

\* what decode_live_data gives for the field of the member c of CharLive
\* when the payload holds the raw integer v at its position
BulkField(c, v) ==
    LET bulk == decode_live_data(PyBytes(PackLive(
                    [LiveFixture EXCEPT ![CharLiveValue[c.name]] = v])))
    IN  IF IsRaise(bulk) THEN bulk ELSE bulk.v[LiveFieldName[c.name]]

\* C25: read(CharLive.X) of the raw integer v returns what decode_live_data
\* returns in field X for a payload with v at position X, for every member
\* X of CharLive and every v (both fail when v is the value of no member of
\* the Enum class of X)
C25_LiveMatchesBulk ==
    (call.fn = "read" /\ call.char.cls = "CharLive" /\ got.t # "pending")
        => PyEq(got, BulkField(call.char, call.arg.v))


\* the coroutines that wait for the transport call pc to return
Awaiting(pc) == {i \in 1..Len(tasks) : tasks[i].pc = pc}

\* C26: among the reads get_settings runs concurrently at most one
\* transport connect() is in flight, none is in flight once the link is up,
\* and no teardown of the stale connection (transport disconnect()) is in
\* flight when a sibling read has gone on to connect or to read
C26_ConnectOnce ==
    op.kind = "get_settings"
        => /\ Cardinality(Awaiting("connecting")) <= 1
           /\ Awaiting("connecting") # {} => link = "Disconnected"
           /\ Cardinality(Awaiting("disconnecting")) <= 1
           /\ Awaiting("disconnecting") # {}
                => Awaiting("connecting") \cup Awaiting("io") = {}


\* C27: with the callback of the client itself, when get_device_info has
\* set is_synced the link did not drop between its reads: no connect() was
\* needed after the first read_gatt_char of the call, so that build,
\* device_sn and device_id were all read on the connection that is up
C27_SyncedOnOneLink ==
    (/\ ~user_callback
     /\ op.kind = "get_device_info"
     /\ op.status = "done"
     /\ op.res.t = "DeviceInfoResponse"
     /\ device_info.is_synced)
        => \A k \in CallsOf(calls, "connect") :
              \A j \in CallsOf(calls, "read_gatt_char") : k < j


\* the wire identifiers of the reads of the log, in the order of the calls
RECURSIVE ReadSeq(_)
ReadSeq(log) ==
    IF log = <<>> THEN <<>>
    ELSE IF Head(log).fn = "read_gatt_char"
    THEN <<Head(log).uuid>> \o ReadSeq(Tail(log))
    ELSE ReadSeq(Tail(log))

\* build, device_sn, device_id
DeviceInfoUuids == <<"9eae1003", "9eae1004", "9eae1005">>

\* a get_device_info in which the transport raised: in connect() or
\* disconnect() before the read of a field, or in the read itself
DeviceInfoFailed ==
    /\ op.kind = "get_device_info"
    /\ op.status = "done"
    /\ Len(tasks) = 1
    /\ tasks[1].err # "None"

\* the reads of get_device_info are build, device_sn and device_id in this
\* order, from the first; when the transport raised, the call raised
\* CommunicationError, the call that raised is the last transport call and
\* is_synced is false
DeviceInfoStops ==
    op.kind = "get_device_info"
        => /\ Len(ReadSeq(calls)) <= 3
           /\ ReadSeq(calls) = SubSeq(DeviceInfoUuids, 1, Len(ReadSeq(calls)))
           /\ DeviceInfoFailed
                => /\ IsRaise(op.res)
                   /\ op.res.v = "CommunicationError"
                   /\ ~device_info.is_synced
                   /\ calls # <<>>
                   /\ calls[Len(calls)].fn = "read_gatt_char"
                        => calls[Len(calls)].uuid = tasks[1].uuid

\* C28: when the transport raises in one of the three reads of
\* get_device_info, the call raises CommunicationError, makes no transport
\* call after the one that raised and leaves is_synced false; a
\* get_device_info called next does not return the cached record but reads
\* again, build first
C28_DeviceInfoFailure ==
    [][/\ DeviceInfoStops'
       /\ (DeviceInfoFailed /\ op'.kind = "get_device_info"
             /\ (op'.status = "running" \/ Len(tasks') = 0))
             => /\ op'.status = "running"
                /\ Len(tasks') = 1
                /\ tasks'[1].char.name = "BUILD"]_vars

\* the read of device_sn raised BleakError after build was read
C28_Witness ==
    /\ DeviceInfoFailed
    /\ tasks[1].char.name = "DEVICE_SN"
    /\ tasks[1].err = "BleakError"
    /\ ReadSeq(calls) = <<"9eae1003", "9eae1004">>
    /\ IsRaise(op.res)
    /\ op.res.v = "CommunicationError"
    /\ ~device_info.is_synced
    /\ device_info.build.t = "str"


\* C29: write(BOOST_TEMP, x) sends 0 when the integer x is 0 and
\* clamp(x, 250, 450) for every other integer x; whatever the value
\* written, what is sent is 0 or lies in 250..450
C29_BoostTemp ==
    (call.fn = "write" /\ call.char = CharSetting("BOOST_TEMP")
        /\ sent.t = "bytes")
        => /\ Len(sent.v) = 2
           /\ sent.v[1] + 256 * sent.v[2] \in {0} \cup (250..450)
           /\ call.arg.t = "int"
                => sent.v = LittleEndian2(IF call.arg.v = 0 THEN 0
                                          ELSE Clamp(call.arg.v, 250, 450))

\* boost switched off: 0 is sent as it is
C29_Witness ==
    /\ call.fn = "write"
    /\ call.char = CharSetting("BOOST_TEMP")
    /\ call.arg.t = "int"
    /\ call.arg.v = 0
    /\ sent.t = "bytes"
    /\ sent.v = <<0, 0>>

(***************************************************************************)
(* SpecBrightness: write(DISPLAY_BRIGHTNESS, b) for the integers b, up to  *)
(* the bytes sent, and read(DISPLAY_BRIGHTNESS) when the device returns a  *)
(* raw integer.                                                            *)
(***************************************************************************)
InitBrightness ==
    /\ ClientNew
    /\ user_callback = FALSE
    /\ got = Pending
    /\ \/ \E b \in IntInputs :
             /\ call = [fn |-> "write",
                        char |-> CharSetting("DISPLAY_BRIGHTNESS"),
                        arg |-> PyInt(b)]
             /\ sent = Pending
       \/ \E w \in 0..MaxRawRead :
             /\ call = [fn |-> "read",
                        char |-> CharSetting("DISPLAY_BRIGHTNESS"),
                        arg |-> PyInt(w)]
             /\ sent = PyBytes(<<w % 256, w \div 256>>)

NextBrightness == CodecWrite \/ CodecRead

SpecBrightness == InitBrightness /\ [][NextBrightness]_vars

\* C30: write(DISPLAY_BRIGHTNESS, b) sends 25 * clamp(b, 1, 5) - 24, a
\* value in 1..101, for every integer b, and read returns
\* floor((w + 24) / 25), a level in 1..5, for every wire value w in 1..101
C30_Brightness ==
    (call.char = CharSetting("DISPLAY_BRIGHTNESS"))
        => /\ (call.fn = "write" /\ call.arg.t = "int" /\ sent.t # "pending")
                => /\ sent.t = "bytes"
                   /\ sent.v = LittleEndian2(25 * Clamp(call.arg.v, 1, 5) - 24)
                   /\ sent.v[1] + 256 * sent.v[2] \in 1..101
           /\ (call.fn = "read" /\ got.t # "pending"
                  /\ call.arg.v \in 1..101)
                => /\ got.t = "int"
                   /\ got.v = (call.arg.v + 24) \div 25
                   /\ got.v \in 1..5

\* level 3 is sent as 51
C30_Witness ==
    /\ call.fn = "write"
    /\ call.char = CharSetting("DISPLAY_BRIGHTNESS")
    /\ call.arg.t = "int"
    /\ call.arg.v = 3
    /\ sent.t = "bytes"
    /\ sent.v = <<51, 0>>

====
